---- MODULE Spec2Model ----
(***************************************************************************)
(* Discrete-event simulation of a fleet of workstations (package           *)
(* simulation/): the Computer on/off state machine with its interruptible  *)
(* idle timer, the User behaviour process, the Stats/Histogram store and   *)
(* the run orchestrator.  Simulated time is an integer number of seconds;  *)
(* the SimPy event queue is a sequence kept in processing order (time,     *)
(* then URGENT before NORMAL, then insertion order).                       *)
(***************************************************************************)
EXTENDS Integers, Sequences, FiniteSets, TLC

(***************************************************************************)
(* Bounds of the model.  Every sampled duration is a multiple of Tick.     *)
(***************************************************************************)
Tick == 1800
SimTicks == 5
MaxAct == 1
MaxInact == 4
MaxOff == 1
MaxIdle == 2
MaxOffFreq == 3
MaxCache == 2
MaxMaxRuns == 4
MaxMetric == 1
MaxWidth == 5

(***************************************************************************)
(* Program constants.                                                      *)
(***************************************************************************)
HOUR == 3600
DAY == 24 * HOUR
WEEK == 7 * DAY

None == -1

\* cid=None, the default of the queries: the entries of every computer.
NoCid == "None"

Keys == {"USER_SHUTDOWN_TIME", "AUTO_SHUTDOWN_TIME", "ACTIVITY_TIME",
         "INACTIVITY_TIME", "IDLE_TIME"}

OffIntervals == {k * Tick : k \in 0..MaxOff}
\* off_frequency values are kept in halves: f stands for f / 2.
OffFrequencies == 0..MaxOffFreq

VARIABLES
    ad,          \* the ActivityDistribution: its models, its servers, the call in progress
    config,      \* Configuration: arguments and config file values
    runs,        \* Configuration.__runs
    now,         \* env.now of the current SimPy environment
    queue,       \* the environment's pending events, in processing order
    computer,    \* per user: the fields of its Computer
    timers,      \* per user: the idle-timer processes created so far
    user,        \* per user: the fields and position of its User.run process
    storage,     \* Stats.__storage: histogram name -> write cache
    db,          \* rows of the histogram table
    rpc,         \* position of Simulation.run / of runner
    runner,      \* local variables of runner()
    failure,     \* exception that left the simulation, "none" otherwise
    trans,       \* history: the status changes of the current run
    recorded     \* history: every Stats.append so far, with the run it was made in

vars == <<ad, config, runs, now, queue, computer, timers, user, storage, db, rpc,
          runner, failure, trans, recorded>>

Users == 1..Len(config.cids)

(***************************************************************************)
(* static.py: conversions of a timestamp.                                  *)
(***************************************************************************)
timestamp_to_day(timestamp) ==
    <<(timestamp % WEEK) \div DAY, (timestamp % DAY) \div HOUR>>

(***************************************************************************)
(* SimPy environment: scheduling of an event.  An event goes after every   *)
(* pending event that is earlier, or at the same time and not of a lower   *)
(* priority (URGENT events of one instant run before its NORMAL ones).     *)
(***************************************************************************)
Schedule(q, e) ==
    LET Before(a) == \/ a.time < e.time
                     \/ a.time = e.time /\ (a.urgent \/ ~e.urgent)
        n == Cardinality({i \in 1..Len(q) : Before(q[i])})
    IN SubSeq(q, 1, n) \o <<e>> \o SubSeq(q, n + 1, Len(q))

Event(time, urgent, kind, type, u, k) ==
    [time |-> time, urgent |-> urgent, kind |-> kind,
     proc |-> [type |-> type, u |-> u, k |-> k]]

\* Process.is_alive of the idle-timer process k of user u.
is_alive(u, k) == timers[u][k] # "dead"

(***************************************************************************)
(* Histogram: write cache and table.                                       *)
(***************************************************************************)
HasKey(sto, key) == \E i \in 1..Len(sto) : sto[i].name = key

KeyIndex(sto, key) == CHOOSE i \in 1..Len(sto) : sto[i].name = key

Rows(name, cache, run) ==
    [i \in 1..Len(cache) |->
        [run |-> run, histogram |-> name, timestamp |-> cache[i].timestamp,
         computer |-> cache[i].computer, value |-> cache[i].value]]

\* Fault: a flush that inserts the cached entries and keeps them cached.
flushKeepsCache(st, i) ==
    IF st.storage[i].cache # <<>>
    THEN [st EXCEPT !.db = @ \o Rows(st.storage[i].name, st.storage[i].cache,
                                     runs)]
    ELSE st

\* Histogram.flush of the histogram at position i of the storage.
flush(st, i) ==
    IF st.storage[i].cache # <<>>
    THEN [st EXCEPT !.storage[i].cache = <<>>,
                    !.db = @ \o Rows(st.storage[i].name, st.storage[i].cache,
                                     runs)]
    ELSE st

\* Histogram.append
append(st, i, timestamp, cid, value) ==
    LET cached == [st EXCEPT !.storage[i].cache =
                       Append(@, [timestamp |-> timestamp, computer |-> cid,
                                  value |-> value])]
    IN IF Len(cached.storage[i].cache) >= config.cache_size
       THEN flush(cached, i)
       ELSE cached

\* Stats.append, and the history of the appends made.
StatsAppend(st, key, value, cid, timestamp) ==
    LET built == IF HasKey(st.storage, key)
                 THEN st
                 ELSE [st EXCEPT !.storage =
                           Append(@, [name |-> key, cache |-> <<>>])]
        logged == [built EXCEPT !.recorded =
                      Append(@, [run |-> runs, histogram |-> key,
                                 timestamp |-> timestamp, computer |-> cid,
                                 value |-> value])]
    IN append(logged, KeyIndex(logged.storage, key), timestamp, cid, value)

\* Fault: a run that ends without flushing the histograms.
StatsFlushNothing(st) == st

RECURSIVE FlushFrom(_, _)
FlushFrom(st, i) ==
    IF i > Len(st.storage) THEN st ELSE FlushFrom(flush(st, i), i + 1)

\* Stats.flush
StatsFlush(st) == FlushFrom(st, 1)

(***************************************************************************)
(* Histogram queries.  Each one flushes the write cache first; the rows it *)
(* selects are those of the histogram and of the current run.              *)
(***************************************************************************)
RECURSIVE SumSeq(_)
SumSeq(q) == IF q = <<>> THEN 0 ELSE Head(q) + SumSeq(Tail(q))

Selected(st, name, cid) ==
    LET flushed == flush(st, KeyIndex(st.storage, name))
    IN SelectSeq(flushed.db,
                 LAMBDA r : /\ r.histogram = name
                            /\ r.run = runs
                            /\ cid = NoCid \/ r.computer = cid)

\* Histogram.get_all_events
get_all_events(st, name, cid) ==
    LET rows == Selected(st, name, cid)
    IN [i \in 1..Len(rows) |->
           [timestamp |-> rows[i].timestamp, value |-> rows[i].value]]

\* Fault: a sum that is never trimmed at the horizon.
sum_histogramUntrimmed(st, name, cid, trim) ==
    LET rows == Selected(st, name, cid)
    IN IF rows = <<>>
       THEN None
       ELSE SumSeq([i \in 1..Len(rows) |-> rows[i].value])

\* Histogram.sum_histogram: SUM over no row is NULL, and int(None) raises.
sum_histogram(st, name, cid, trim) ==
    LET rows == Selected(st, name, cid)
        v(r) == IF trim /\ r.timestamp + r.value > config.simulation_time
                THEN config.simulation_time - r.timestamp
                ELSE r.value
    IN IF rows = <<>>
       THEN None
       ELSE SumSeq([i \in 1..Len(rows) |-> v(rows[i])])

\* Histogram.count_histogram
count_histogram(st, name, cid) == Len(Selected(st, name, cid))

\* Stats.get_all_events
StatsEvents(st, key, cid) ==
    IF HasKey(st.storage, key) THEN get_all_events(st, key, cid) ELSE <<>>

\* Stats.sum_histogram
StatsSum(st, key, cid) ==
    IF HasKey(st.storage, key) THEN sum_histogram(st, key, cid, FALSE) ELSE 0

\* Stats.count_histogram
StatsCount(st, key, cid) ==
    IF HasKey(st.storage, key) THEN count_histogram(st, key, cid) ELSE 0

(***************************************************************************)
(* The state a callback works on: the callback's code is a sequence of     *)
(* statements, each an operator from such a state to the next one.  The    *)
(* field now is env.now while the callback runs.                           *)
(***************************************************************************)
Local(t, q) ==
    [now |-> t, queue |-> q, computer |-> computer, storage |-> storage,
     db |-> db, recorded |-> recorded, trans |-> trans, failure |-> failure]

Commit(st) ==
    /\ now' = st.now
    /\ queue' = st.queue
    /\ computer' = st.computer
    /\ storage' = st.storage
    /\ db' = st.db
    /\ recorded' = st.recorded
    /\ trans' = st.trans
    /\ failure' = st.failure

\* Process.interrupt() on the idle timer k of user u: an error on a process
\* that has ended, otherwise an URGENT Interruption event at the current time.
interrupt(st, u, k) ==
    IF is_alive(u, k)
    THEN [st EXCEPT !.queue =
              Schedule(@, Event(st.now, TRUE, "interrupt", "timer", u, k))]
    ELSE [st EXCEPT !.failure = "RuntimeError"]

\* Fault: change_status recording the auto-shutdown at the current time.
change_statusNow(st, u, status, interrupt_idle_timer) ==
    LET c == st.computer[u]
        s1 == IF interrupt_idle_timer /\ is_alive(u, c.idle_timer)
              THEN interrupt(st, u, c.idle_timer)
              ELSE st
        s2 == IF status = "on" /\ c.last_auto_shutdown # None
              THEN [StatsAppend(s1, "AUTO_SHUTDOWN_TIME",
                                st.now - c.last_auto_shutdown, c.cid, st.now)
                      EXCEPT !.computer[u].last_auto_shutdown = None]
              ELSE s1
    IN [s2 EXCEPT !.computer[u].status = status,
                  !.trans = Append(@, [u |-> u, from |-> c.status,
                                       to |-> status, time |-> st.now,
                                       timer |-> ~interrupt_idle_timer])]

\* Fault: change_status interrupting the idle timer without asking whether
\* it is alive.
change_statusUnchecked(st, u, status, interrupt_idle_timer) ==
    LET c == st.computer[u]
        s1 == IF interrupt_idle_timer
              THEN interrupt(st, u, c.idle_timer)
              ELSE st
        s2 == IF status = "on" /\ c.last_auto_shutdown # None
              THEN [StatsAppend(s1, "AUTO_SHUTDOWN_TIME",
                                st.now - c.last_auto_shutdown, c.cid,
                                c.last_auto_shutdown)
                      EXCEPT !.computer[u].last_auto_shutdown = None]
              ELSE s1
    IN [s2 EXCEPT !.computer[u].status = status,
                  !.trans = Append(@, [u |-> u, from |-> c.status,
                                       to |-> status, time |-> st.now,
                                       timer |-> ~interrupt_idle_timer])]

(***************************************************************************)
(* Computer                                                                *)
(***************************************************************************)
change_status(st, u, status, interrupt_idle_timer) ==
    LET c == st.computer[u]
        s1 == IF interrupt_idle_timer /\ is_alive(u, c.idle_timer)
              THEN interrupt(st, u, c.idle_timer)
              ELSE st
        s2 == IF status = "on" /\ c.last_auto_shutdown # None
              THEN [StatsAppend(s1, "AUTO_SHUTDOWN_TIME",
                                st.now - c.last_auto_shutdown, c.cid,
                                c.last_auto_shutdown)
                      EXCEPT !.computer[u].last_auto_shutdown = None]
              ELSE s1
    IN [s2 EXCEPT !.computer[u].status = status,
                  !.trans = Append(@, [u |-> u, from |-> c.status,
                                       to |-> status, time |-> st.now,
                                       timer |-> ~interrupt_idle_timer])]

\* Fault: serve leaving a live idle timer alone.
serveNoInterrupt(st, u, activity_time) ==
    LET s1 == IF st.computer[u].status # "on"
              THEN change_status(st, u, "on", TRUE)
              ELSE st
        s3 == StatsAppend(s1, "ACTIVITY_TIME", activity_time,
                          s1.computer[u].cid, s1.now)
    IN [s3 EXCEPT !.queue =
            Schedule(@, Event(s3.now + activity_time, FALSE, "timeout",
                              "serve", u, 0))]

\* Computer.serve up to its yield; activity_time is the sampled activity.
serve(st, u, activity_time) ==
    LET s1 == IF st.computer[u].status # "on"
              THEN change_status(st, u, "on", TRUE)
              ELSE st
        s2 == IF is_alive(u, s1.computer[u].idle_timer)
              THEN interrupt(s1, u, s1.computer[u].idle_timer)
              ELSE s1
        s3 == StatsAppend(s2, "ACTIVITY_TIME", activity_time,
                          s2.computer[u].cid, s2.now)
    IN [s3 EXCEPT !.queue =
            Schedule(@, Event(s3.now + activity_time, FALSE, "timeout",
                              "serve", u, 0))]

\* Fault: a run that also processes the events of the horizon itself.
ReadyAtHorizon(kinds, type) ==
    /\ rpc = "running"
    /\ failure = "none"
    /\ queue # <<>>
    /\ Head(queue).time <= config.simulation_time
    /\ Head(queue).kind \in kinds
    /\ Head(queue).proc.type = type

(***************************************************************************)
(* Env.run: the next event is processed while it is earlier than the       *)
(* horizon; a callback that raised has ended the run.                      *)
(***************************************************************************)
Ready(kinds, type) ==
    /\ rpc = "running"
    /\ failure = "none"
    /\ queue # <<>>
    /\ Head(queue).time < config.simulation_time
    /\ Head(queue).kind \in kinds
    /\ Head(queue).proc.type = type

Popped == Local(Head(queue).time, Tail(queue))

\* Computer.__idle_timer_runner up to its yield.
TimerStart ==
    /\ Ready({"init"}, "timer")
    /\ LET u == Head(queue).proc.u
           k == Head(queue).proc.k
       IN IF config.disable_auto_shutdown
          THEN /\ timers' = [timers EXCEPT ![u][k] = "dead"]
               /\ Commit(Popped)
          ELSE \E idle_timeout \in {n * Tick : n \in 1..MaxIdle} :
               LET s1 == StatsAppend(Popped, "IDLE_TIME", idle_timeout,
                                     computer[u].cid, Popped.now)
               IN /\ timers' = [timers EXCEPT ![u][k] = "sleeping"]
                  /\ Commit([s1 EXCEPT !.queue =
                         Schedule(@, Event(s1.now + idle_timeout, FALSE,
                                           "timeout", "timer", u, k))])
    /\ UNCHANGED <<ad, config, runs, user, rpc, runner>>

\* Fault: an auto-shutdown that leaves the mark unset.
TimerFireUnmarked ==
    /\ Ready({"timeout"}, "timer")
    /\ LET u == Head(queue).proc.u
           k == Head(queue).proc.k
           s1 == change_status(Popped, u, "off", FALSE)
       IN /\ timers' = [timers EXCEPT ![u][k] = "dead"]
          /\ Commit(s1)
    /\ UNCHANGED <<ad, config, runs, user, rpc, runner>>

\* Computer.__idle_timer_runner after its timeout: the auto-shutdown.
TimerFire ==
    /\ Ready({"timeout"}, "timer")
    /\ LET u == Head(queue).proc.u
           k == Head(queue).proc.k
           s1 == change_status(Popped, u, "off", FALSE)
       IN /\ timers' = [timers EXCEPT ![u][k] = "dead"]
          /\ Commit([s1 EXCEPT !.computer[u].last_auto_shutdown = s1.now])
    /\ UNCHANGED <<ad, config, runs, user, rpc, runner>>

\* The Interruption event of an idle timer: nothing on a process that has
\* ended; a sleeping one leaves its timeout and ends in its except clause; one
\* that has not started yet raises the Interrupt out of its generator.
TimerInterrupted ==
    /\ Ready({"interrupt"}, "timer")
    /\ LET u == Head(queue).proc.u
           k == Head(queue).proc.k
           target(e) == e.kind = "timeout" /\ e.proc = Head(queue).proc
       IN CASE timers[u][k] = "dead" ->
                 /\ timers' = timers
                 /\ Commit(Popped)
            [] timers[u][k] = "sleeping" ->
                 /\ timers' = [timers EXCEPT ![u][k] = "dead"]
                 /\ Commit([Popped EXCEPT !.queue =
                        SelectSeq(@, LAMBDA e : ~target(e))])
            [] OTHER ->
                 /\ timers' = [timers EXCEPT ![u][k] = "dead"]
                 /\ Commit([Popped EXCEPT !.failure = "Interrupt"])
    /\ UNCHANGED <<ad, config, runs, user, rpc, runner>>

\* Computer.serve up to its yield, as the process User.run waits for.
ServeStart ==
    /\ Ready({"init"}, "serve")
    /\ \E activity_time \in ad.activity :
           Commit(serve(Popped, Head(queue).proc.u, activity_time))
    /\ UNCHANGED <<ad, config, runs, timers, user, rpc, runner>>

\* Computer.serve after its yield: a fresh idle timer; the process ends and
\* its event resumes User.run.
ServeEnd ==
    /\ Ready({"timeout"}, "serve")
    /\ LET u == Head(queue).proc.u
           k == Len(timers[u]) + 1
           s1 == [Popped EXCEPT !.queue =
                     Schedule(@, Event(Popped.now, TRUE, "init", "timer",
                                       u, k)),
                                !.computer[u].idle_timer = k]
       IN /\ timers' = [timers EXCEPT ![u] = Append(@, "created")]
          /\ Commit([s1 EXCEPT !.queue =
                 Schedule(@, Event(s1.now, FALSE, "done", "user", u, 0))])
    /\ UNCHANGED <<ad, config, runs, user, rpc, runner>>

(***************************************************************************)
(* User                                                                    *)
(***************************************************************************)
is_on(st, u) == st.computer[u].status = "on"

\* Fault: a shutdown that leaves the count as it was.
indicate_shutdownNoDecrement(st, u) ==
    IF ~is_on(st, u)
    THEN {[result |-> FALSE, current_hour |-> user[u].current_hour,
           off_frequency |-> user[u].off_frequency]}
    ELSE LET hour == timestamp_to_day(st.now)
             fetched == IF user[u].current_hour # hour
                        THEN OffFrequencies
                        ELSE {user[u].off_frequency}
         IN {[result |-> TRUE, current_hour |-> hour, off_frequency |-> f]
                 : f \in {g \in fetched : g > 0}}
            \cup
            {[result |-> FALSE, current_hour |-> hour, off_frequency |-> f]
                 : f \in {g \in fetched : g < 2}}

\* User.__indicate_shutdown at time t: its possible results, each with the
\* fields it leaves.  numpy.random.random() is in [0, 1): a frequency above
\* 0 may exceed it, a frequency of 1 or more always does.
indicate_shutdown(st, u) ==
    IF ~is_on(st, u)
    THEN {[result |-> FALSE, current_hour |-> user[u].current_hour,
           off_frequency |-> user[u].off_frequency]}
    ELSE LET hour == timestamp_to_day(st.now)
             fetched == IF user[u].current_hour # hour
                        THEN OffFrequencies
                        ELSE {user[u].off_frequency}
         IN {[result |-> TRUE, current_hour |-> hour, off_frequency |-> f - 2]
                 : f \in {g \in fetched : g > 0}}
            \cup
            {[result |-> FALSE, current_hour |-> hour, off_frequency |-> f]
                 : f \in {g \in fetched : g < 2}}

AtLoopHead(u) ==
    /\ Head(queue).proc.u = u
    /\ user[u].pc \in {"init", "inactive"}

\* Fault: a voluntary shutdown that leaves the idle timer running.
UserShutdownKeepsTimer ==
    /\ Ready({"init", "timeout"}, "user")
    /\ LET u == Head(queue).proc.u
       IN /\ AtLoopHead(u)
          /\ \E r \in indicate_shutdown(Popped, u) :
             \E shutdown_time \in OffIntervals :
               LET s1 == change_status(Popped, u, "off", FALSE)
                   s2 == StatsAppend(s1, "USER_SHUTDOWN_TIME", shutdown_time,
                                     computer[u].cid, s1.now)
               IN /\ r.result
                  /\ user' = [user EXCEPT ![u] =
                         [pc |-> "shutdown", current_hour |-> r.current_hour,
                          off_frequency |-> r.off_frequency]]
                  /\ Commit([s2 EXCEPT !.queue =
                         Schedule(@, Event(s2.now + shutdown_time, FALSE,
                                           "timeout", "user", u, 0))])
    /\ UNCHANGED <<ad, config, runs, timers, rpc, runner>>

\* User.run: an iteration that shuts the computer down, up to its yield.
UserShutdown ==
    /\ Ready({"init", "timeout"}, "user")
    /\ LET u == Head(queue).proc.u
       IN /\ AtLoopHead(u)
          /\ \E r \in indicate_shutdown(Popped, u) :
             \E shutdown_time \in OffIntervals :
               LET s1 == change_status(Popped, u, "off", TRUE)
                   s2 == StatsAppend(s1, "USER_SHUTDOWN_TIME", shutdown_time,
                                     computer[u].cid, s1.now)
               IN /\ r.result
                  /\ user' = [user EXCEPT ![u] =
                         [pc |-> "shutdown", current_hour |-> r.current_hour,
                          off_frequency |-> r.off_frequency]]
                  /\ Commit([s2 EXCEPT !.queue =
                         Schedule(@, Event(s2.now + shutdown_time, FALSE,
                                           "timeout", "user", u, 0))])
    /\ UNCHANGED <<ad, config, runs, timers, rpc, runner>>

\* User.run: an iteration without a shutdown, up to the yield on serve().
UserServe ==
    /\ Ready({"init", "timeout"}, "user")
    /\ LET u == Head(queue).proc.u
       IN /\ AtLoopHead(u)
          /\ \E r \in indicate_shutdown(Popped, u) :
               /\ ~r.result
               /\ user' = [user EXCEPT ![u] =
                      [pc |-> "serving", current_hour |-> r.current_hour,
                       off_frequency |-> r.off_frequency]]
               /\ Commit([Popped EXCEPT !.queue =
                      Schedule(@, Event(Popped.now, TRUE, "init", "serve",
                                        u, 0))])
    /\ UNCHANGED <<ad, config, runs, timers, rpc, runner>>

\* User.run after the sleep of a shutdown, up to the yield on serve().
UserWakeUp ==
    /\ Ready({"timeout"}, "user")
    /\ LET u == Head(queue).proc.u
       IN /\ user[u].pc = "shutdown"
          /\ user' = [user EXCEPT ![u].pc = "serving"]
          /\ Commit([Popped EXCEPT !.queue =
                 Schedule(@, Event(Popped.now, TRUE, "init", "serve", u, 0))])
    /\ UNCHANGED <<ad, config, runs, timers, rpc, runner>>

\* User.run after serve(), up to the yield of the inactivity.
UserInactivity ==
    /\ Ready({"done"}, "user")
    /\ LET u == Head(queue).proc.u
       IN \E inactivity_time \in ad.inactivity :
            LET s1 == StatsAppend(Popped, "INACTIVITY_TIME", inactivity_time,
                                  computer[u].cid, Popped.now)
            IN /\ user' = [user EXCEPT ![u].pc = "inactive"]
               /\ Commit([s1 EXCEPT !.queue =
                      Schedule(@, Event(s1.now + inactivity_time, FALSE,
                                        "timeout", "user", u, 0))])
    /\ UNCHANGED <<ad, config, runs, timers, rpc, runner>>

(***************************************************************************)
(* Simulation.run                                                          *)
(***************************************************************************)
RECURSIVE Built(_, _)
Built(q, u) ==
    IF u > Len(config.cids)
    THEN q
    ELSE Built(Schedule(Schedule(q, Event(0, TRUE, "init", "timer", u, 1)),
                        Event(0, TRUE, "init", "user", u, 0)),
               u + 1)

\* Simulation.run up to env.run: Configuration.new_run, and a User with its
\* Computer for every computer id.
StartRun ==
    /\ rpc \in {"ready", "returned"}
    /\ failure = "none"
    /\ runs < config.max_runs
    /\ runs' = runs + 1
    /\ now' = 0
    /\ queue' = Built(<<>>, 1)
    /\ computer' = [u \in Users |->
           [cid |-> config.cids[u], status |-> "on",
            last_auto_shutdown |-> None, idle_timer |-> 1]]
    /\ timers' = [u \in Users |-> <<"created">>]
    /\ user' = [u \in Users |->
           [pc |-> "init", current_hour |-> <<None, None>>,
            off_frequency |-> 0]]
    /\ trans' = <<>>
    /\ rpc' = "running"
    /\ UNCHANGED <<ad, config, storage, db, runner, failure, recorded>>

\* Simulation.__validate_results: it only reads, and its warnings change
\* nothing; a histogram that exists with no entry of this run raises.
validate_results(st) ==
    IF \E key \in {"ACTIVITY_TIME", "USER_SHUTDOWN_TIME",
                    "AUTO_SHUTDOWN_TIME", "INACTIVITY_TIME"} :
          /\ HasKey(st.storage, key)
          /\ sum_histogram(st, key, NoCid, TRUE) = None
    THEN [st EXCEPT !.failure = "TypeError"]
    ELSE st

\* Simulation.run from the end of env.run: the clock is at the horizon and
\* the histograms are flushed.
EndRun ==
    /\ rpc = "running"
    /\ failure = "none"
    /\ queue = <<>> \/ Head(queue).time >= config.simulation_time
    /\ LET s1 == validate_results(StatsFlush(Local(config.simulation_time,
                                                    queue)))
       IN /\ Commit(s1)
          /\ rpc' = IF s1.failure = "none" THEN "returned" ELSE "raised"
    /\ UNCHANGED <<ad, config, runs, timers, user, runner>>

(***************************************************************************)
(* runner: the run orchestrator.  Numbers are exact fractions [n, d]; a    *)
(* half-width d = t * sqrt(s / i) is kept as its square, and compared with *)
(* the square of the width.                                                *)
(***************************************************************************)
RECURSIVE GCD(_, _)
GCD(a, b) == IF b = 0 THEN a ELSE GCD(b, a % b)

Abs(a) == IF a < 0 THEN -a ELSE a

Frac(n, d) ==
    LET g == GCD(Abs(n), Abs(d))
        sign == IF d < 0 THEN -1 ELSE 1
    IN [n |-> sign * (n \div g), d |-> sign * (d \div g)]

Plus(a, b) == Frac(a.n * b.d + b.n * a.d, a.d * b.d)
Minus(a, b) == Frac(a.n * b.d - b.n * a.d, a.d * b.d)
Times(a, b) == Frac(a.n * b.n, a.d * b.d)
\* scipy.stats.t.interval(0.95, df)[1], in hundredths.
StudentT(df) ==
    CASE df = 1 -> Frac(1271, 100)
      [] df = 2 -> Frac(430, 100)
      [] df = 3 -> Frac(318, 100)
      [] df = 4 -> Frac(278, 100)
      [] OTHER -> Frac(257, 100)

\* confidence_interval up to its first yield.
confidence_interval(m) ==
    [x |-> Frac(m, 1), s |-> Frac(0, 1), d2 |-> Frac(0, 1), i |-> 1]

\* confidence_interval from one yield to the next, m being the value sent.
send(g, m) ==
    LET i == g.i + 1
        dev == Minus(Frac(m, 1), g.x)
        s == Plus(Times(Frac(i - 2, i - 1), g.s),
                  Times(Frac(1, i), Times(dev, dev)))
        x == Plus(Times(Minus(Frac(1, 1), Frac(1, i)), g.x),
                  Times(Frac(1, i), Frac(m, 1)))
        t == StudentT(i - 1)
    IN [x |-> x, s |-> s, d2 |-> Times(Times(t, t), Times(s, Frac(1, i))),
        i |-> i]

\* d > confidence_width
Wider(g) ==
    LET w == Frac(config.confidence_width * config.confidence_width, 1)
    IN g.d2.n * w.d > w.n * g.d2.d

\* Fault: a loop that goes on only while both half-widths are too wide.
LoopConditionBoth ==
    \/ Wider(runner.inactivity) /\ Wider(runner.satisfaction)
    \/ runner.c < 2

\* The condition of runner's while loop.
LoopCondition ==
    Wider(runner.inactivity) \/ Wider(runner.satisfaction) \/ runner.c < 2

NoRunner ==
    [c |-> 0, satisfaction |-> confidence_interval(0),
     inactivity |-> confidence_interval(0), warned |-> FALSE,
     outcome |-> "none"]

Metrics == 0..MaxMetric

\* What runner sees of Simulation.run: a new run is counted, the clock ends
\* at the horizon; the metrics it returns are the inputs s and i.
run ==
    /\ failure = "none"
    /\ runs' = runs + 1
    /\ now' = config.simulation_time
    /\ UNCHANGED <<ad, config, queue, computer, timers, user, storage, db,
                   failure, trans, recorded>>

\* runner up to its loop: the first run, then either the single-run warning
\* or the two estimators.
RunnerFirstRun ==
    /\ rpc = "ready"
    /\ run
    /\ \E s \in Metrics, i \in Metrics :
         IF config.max_runs = 1 \/ config.fleet_generator
         THEN /\ runner' = [runner EXCEPT !.c = 1, !.outcome = "single"]
              /\ rpc' = "done"
         ELSE /\ runner' = [runner EXCEPT
                    !.c = 1,
                    !.satisfaction = confidence_interval(s),
                    !.inactivity = confidence_interval(i)]
              /\ rpc' = "loop"

\* Fault: an iteration that stops only beyond the cap.
RunnerLoopRunBeyond ==
    /\ rpc = "loop"
    /\ LoopCondition
    /\ run
    /\ \E s \in Metrics, i \in Metrics :
         LET c == runner.c + 1
             stop == c > config.max_runs
         IN /\ runner' = [runner EXCEPT
                  !.c = c,
                  !.satisfaction = send(@, s),
                  !.inactivity = send(@, i),
                  !.warned = stop,
                  !.outcome = IF stop THEN "cap" ELSE @]
            /\ rpc' = IF stop THEN "done" ELSE "loop"

\* One iteration of runner's loop.
RunnerLoopRun ==
    /\ rpc = "loop"
    /\ LoopCondition
    /\ run
    /\ \E s \in Metrics, i \in Metrics :
         LET c == runner.c + 1
             stop == c >= config.max_runs
         IN /\ runner' = [runner EXCEPT
                  !.c = c,
                  !.satisfaction = send(@, s),
                  !.inactivity = send(@, i),
                  !.warned = stop,
                  !.outcome = IF stop THEN "cap" ELSE @]
            /\ rpc' = IF stop THEN "done" ELSE "loop"

\* The loop's condition is false: all runs done.
RunnerLoopExit ==
    /\ rpc = "loop"
    /\ ~LoopCondition
    /\ runner' = [runner EXCEPT !.outcome = "converged"]
    /\ rpc' = "done"
    /\ UNCHANGED <<ad, config, runs, now, queue, computer, timers, user, storage,
                   db, failure, trans, recorded>>


Configurations(times, caps) ==
    [simulation_time : times, max_runs : caps, confidence_width : {0},
     fleet_generator : {FALSE}, disable_auto_shutdown : BOOLEAN,
     cache_size : 1..MaxCache, cids : {<<"pc1">>}]

RunnerConfigurations ==
    [simulation_time : {Tick}, max_runs : 0..MaxMaxRuns,
     confidence_width : {0, MaxWidth}, fleet_generator : BOOLEAN,
     disable_auto_shutdown : {FALSE}, cache_size : {1}, cids : {<<"pc1">>}]

\* No ActivityDistribution takes part: its models are not read, only the
\* durations its queries can return.
NoAd ==
    [pc |-> "none",
     activity |-> {k * Tick : k \in 1..MaxAct},
     inactivity |-> {k * Tick : k \in 1..MaxInact}]

InitOf(configs) ==
    /\ ad = NoAd
    /\ config \in configs
    /\ runs = 0
    /\ now = 0
    /\ queue = <<>>
    /\ computer = <<>>
    /\ timers = <<>>
    /\ user = <<>>
    /\ storage = <<>>
    /\ db = <<>>
    /\ rpc = "ready"
    /\ runner = NoRunner
    /\ failure = "none"
    /\ trans = <<>>
    /\ recorded = <<>>

Init == InitOf(Configurations({SimTicks * Tick}, {1}))

Next ==
    \/ StartRun
    \/ TimerStart
    \/ TimerFire
    \/ TimerInterrupted
    \/ ServeStart
    \/ ServeEnd
    \/ UserShutdown
    \/ UserServe
    \/ UserWakeUp
    \/ UserInactivity
    \/ EndRun

Spec == Init /\ [][Next]_vars

\* The orchestrator, with the metrics of each run as inputs.
InitRunner == InitOf(RunnerConfigurations)

NextRunner ==
    \/ RunnerFirstRun
    \/ RunnerLoopRun
    \/ RunnerLoopExit

SpecRunner == InitRunner /\ [][NextRunner]_vars

\* Two runs, each of a horizon of three ticks, with auto-shutdown and the
\* largest cache.
InitRuns ==
    InitOf({c \in Configurations({3 * Tick}, {2}) :
               ~c.disable_auto_shutdown /\ c.cache_size = MaxCache})

SpecRuns == InitRuns /\ [][Next]_vars

\* One run of an hour and a half with bursts of ten minutes and gaps of ten
\* or thirty minutes, with auto-shutdown: the User decides several times
\* within an hour.
InitHours ==
    /\ ad = [pc |-> "none", activity |-> {Tick \div 3},
             inactivity |-> {Tick \div 3, Tick}]
    /\ config \in {c \in Configurations({HOUR + Tick}, {1}) :
                      ~c.disable_auto_shutdown /\ c.cache_size = 1}
    /\ runs = 0
    /\ now = 0
    /\ queue = <<>>
    /\ computer = <<>>
    /\ timers = <<>>
    /\ user = <<>>
    /\ storage = <<>>
    /\ db = <<>>
    /\ rpc = "ready"
    /\ runner = NoRunner
    /\ failure = "none"
    /\ trans = <<>>
    /\ recorded = <<>>

SpecHours == InitHours /\ [][Next]_vars

(***************************************************************************)
(* What the properties read: the entries a run has stored, as Stats        *)
(* returns them, and the status transitions of a Computer.                 *)
(***************************************************************************)
Stored == Local(now, queue)

Entries(key, u) == StatsEvents(Stored, key, computer[u].cid)

Total(key, u) == StatsSum(Stored, key, computer[u].cid)

Trimmed(key, u) ==
    IF HasKey(storage, key)
    THEN sum_histogram(Stored, key, computer[u].cid, TRUE)
    ELSE 0

Transitions(u) == SelectSeq(trans, LAMBDA t : t.u = u)

Offs(u) == SelectSeq(trans, LAMBDA t : t.u = u /\ t.to = "off")

LiveTimers(u) == {k \in DOMAIN timers[u] : timers[u][k] # "dead"}

Pending(kind, type, u) ==
    {i \in DOMAIN queue : /\ queue[i].kind = kind
                          /\ queue[i].proc.type = type
                          /\ queue[i].proc.u = u}

\* The idle timers armed at the timestamp of an entry.
ArmedAt(u, timestamp) ==
    SelectSeq(Entries("IDLE_TIME", u), LAMBDA e : e.timestamp = timestamp)

\* No voluntary shutdown so far, and every gap after a burst shorter than the
\* timeout of the idle timer armed when the burst ended.
GapsShort(u) ==
    /\ Entries("USER_SHUTDOWN_TIME", u) = <<>>
    /\ LET gaps == Entries("INACTIVITY_TIME", u)
       IN \A i \in DOMAIN gaps :
            LET armed == ArmedAt(u, gaps[i].timestamp)
            IN \A j \in DOMAIN armed : gaps[i].value < armed[j].value

\* C1: while every gap between the end of a burst and the next serve() is
\* shorter than the idle timeout, and the user never shuts down, the Computer
\* is never off: no transition to off, and no auto-shutdown mark; the
\* interrupted timers end without an error.
C1_NeverOff ==
    \A u \in DOMAIN computer :
        GapsShort(u) =>
            /\ computer[u].status = "on"
            /\ computer[u].last_auto_shutdown = None
            /\ Offs(u) = <<>>
            /\ failure = "none"

\* Two bursts served, and the timer armed after the first one would have
\* expired by now had the second serve() not interrupted it.
C1_Witness ==
    \E u \in DOMAIN computer :
        /\ ~config.disable_auto_shutdown
        /\ GapsShort(u)
        /\ Len(Entries("ACTIVITY_TIME", u)) >= 2
        /\ \E j \in DOMAIN Entries("IDLE_TIME", u) :
             LET e == Entries("IDLE_TIME", u)[j]
             IN e.timestamp > 0 /\ e.timestamp + e.value <= now
        /\ computer[u].status = "on"

\* A run of one burst followed by one gap longer than the timeout of the
\* timer armed at the end of the burst, which expires within the horizon.
OneBurstThenIdle(u) ==
    /\ rpc = "returned"
    /\ ~config.disable_auto_shutdown
    /\ Entries("USER_SHUTDOWN_TIME", u) = <<>>
    /\ Len(Entries("ACTIVITY_TIME", u)) = 1
    /\ Len(Entries("INACTIVITY_TIME", u)) = 1
    /\ LET burst == Entries("ACTIVITY_TIME", u)[1]
           end == burst.timestamp + burst.value
           armed == ArmedAt(u, end)
       IN /\ Len(armed) = 1
          /\ armed[1].value < Entries("INACTIVITY_TIME", u)[1].value
          /\ end + armed[1].value < config.simulation_time

\* C2: after a single burst followed by a gap longer than the timeout, the
\* Computer goes off exactly once, at the end of the burst plus the timeout,
\* and the run holds exactly one IDLE_TIME sample, of the timeout.
C2_OneIdleSample ==
    \A u \in DOMAIN computer :
        OneBurstThenIdle(u) =>
            LET burst == Entries("ACTIVITY_TIME", u)[1]
                end == burst.timestamp + burst.value
                timeout == ArmedAt(u, end)[1].value
            IN /\ Len(Offs(u)) = 1
               /\ Offs(u)[1].time = end + timeout
               /\ Len(Entries("IDLE_TIME", u)) = 1
               /\ Entries("IDLE_TIME", u)[1].value = timeout

\* The transitions to on that follow an auto-shutdown.
AfterAutoShutdown(u) ==
    LET tr == Transitions(u)
    IN SelectSeq([i \in 1..Len(tr) |-> i],
                 LAMBDA i : /\ i > 1
                            /\ tr[i].to = "on"
                            /\ tr[i - 1].to = "off"
                            /\ tr[i - 1].timer)

\* C3: the AUTO_SHUTDOWN_TIME entries are, in order, one per transition to
\* on that follows an auto-shutdown, with the time off as value and the time
\* of the auto-shutdown as timestamp; a transition to on after a voluntary
\* shutdown adds none, and there are no more entries than auto-shutdowns.
C3_AutoShutdownEntries ==
    \A u \in DOMAIN computer :
        LET tr == Transitions(u)
            back == AfterAutoShutdown(u)
        IN /\ Entries("AUTO_SHUTDOWN_TIME", u) =
                 [j \in 1..Len(back) |->
                     [timestamp |-> tr[back[j] - 1].time,
                      value |-> tr[back[j]].time - tr[back[j] - 1].time]]
           /\ Len(Entries("AUTO_SHUTDOWN_TIME", u)) <=
                 Len(SelectSeq(Offs(u), LAMBDA t : t.timer))

\* An auto-shutdown of some length was recorded, and the Computer also came
\* back on after a voluntary shutdown.
C3_Witness ==
    \E u \in DOMAIN computer :
        /\ \E j \in DOMAIN Entries("AUTO_SHUTDOWN_TIME", u) :
             Entries("AUTO_SHUTDOWN_TIME", u)[j].value > 0
        /\ \E i \in DOMAIN Transitions(u) :
             /\ i > 1
             /\ Transitions(u)[i].to = "on"
             /\ ~Transitions(u)[i - 1].timer

Intervals(u) ==
    Entries("USER_SHUTDOWN_TIME", u) \o Entries("ACTIVITY_TIME", u)
        \o Entries("INACTIVITY_TIME", u)

\* The intervals of non-zero length over the instant p.
Over(u, p) ==
    {i \in DOMAIN Intervals(u) :
        /\ Intervals(u)[i].timestamp <= p
        /\ p < Intervals(u)[i].timestamp + Intervals(u)[i].value}

\* C5: with auto-shutdown disabled, at the end of a run every instant of
\* [0, simulation_time) is in exactly one USER_SHUTDOWN_TIME, ACTIVITY_TIME
\* or INACTIVITY_TIME interval, and the three trimmed sums add up to
\* simulation_time.
C5_Tiling ==
    \A u \in DOMAIN computer :
        rpc = "returned" /\ config.disable_auto_shutdown =>
            /\ \A p \in 0..(config.simulation_time \div Tick - 1) :
                 Cardinality(Over(u, p * Tick)) = 1
            /\ Trimmed("USER_SHUTDOWN_TIME", u) + Trimmed("ACTIVITY_TIME", u)
                 + Trimmed("INACTIVITY_TIME", u) = config.simulation_time

\* A run with the three kinds of interval, the last one cut by the horizon.
C5_Witness ==
    \E u \in DOMAIN computer :
        /\ rpc = "returned"
        /\ config.disable_auto_shutdown
        /\ \E i \in DOMAIN Entries("USER_SHUTDOWN_TIME", u) :
             Entries("USER_SHUTDOWN_TIME", u)[i].value > 0
        /\ Entries("ACTIVITY_TIME", u) # <<>>
        /\ Entries("INACTIVITY_TIME", u) # <<>>
        /\ \E i \in DOMAIN Intervals(u) :
             Intervals(u)[i].timestamp + Intervals(u)[i].value
                 > config.simulation_time

\* C6: at the end of a run the AUTO_SHUTDOWN_TIME sum and the IDLE_TIME sum
\* of a Computer add up to its INACTIVITY_TIME sum within 1%, the
\* AUTO_SHUTDOWN_TIME sum being at most the INACTIVITY_TIME sum.
C6_IdleIdentity ==
    \A u \in DOMAIN computer :
        rpc = "returned" /\ ~config.disable_auto_shutdown =>
            /\ 100 * Abs(Total("AUTO_SHUTDOWN_TIME", u) + Total("IDLE_TIME", u)
                         - Total("INACTIVITY_TIME", u))
                 <= Total("INACTIVITY_TIME", u)
            /\ Total("AUTO_SHUTDOWN_TIME", u) <= Total("INACTIVITY_TIME", u)

\* C7: the orchestrator never performs more runs than max_runs, whatever
\* max_runs is, 0 and 1 included.
C7_RunsWithinCap == runs <= config.max_runs /\ runner.c <= config.max_runs

\* C8: the orchestrator stops by convergence only after at least two runs and
\* with both half-widths at most the width; while a half-width exceeds the
\* width and the cap is not reached, its only step is another run.
C8_ConvergenceStop ==
    [][/\ rpc' = "done" /\ runner'.outcome = "converged" =>
            /\ runner'.c >= 2
            /\ ~Wider(runner.satisfaction)'
            /\ ~Wider(runner.inactivity)'
       /\ /\ rpc = "loop"
          /\ runner.c < config.max_runs
          /\ Wider(runner.satisfaction) \/ Wider(runner.inactivity)
          => runs' = runs + 1 /\ runner'.c = runner.c + 1]_vars

\* Convergence at the third run or later, on metrics that differed from run
\* to run, and before the cap.
C8_Witness ==
    /\ rpc = "done"
    /\ runner.outcome = "converged"
    /\ runner.c >= 3
    /\ runner.c < config.max_runs
    /\ runner.satisfaction.s.n > 0
    /\ runner.inactivity.s.n > 0

OfRun(rows, n) == SelectSeq(rows, LAMBDA r : r.run = n)

\* The same entries, each as many times, in whatever order.
SameEntries(a, b) ==
    \A x \in {a[i] : i \in DOMAIN a} \cup {b[i] : i \in DOMAIN b} :
        Cardinality({i \in DOMAIN a : a[i] = x})
            = Cardinality({i \in DOMAIN b : b[i] = x})

\* C10: runs are isolated.  A run starts at time 0 with a Computer that is
\* on and unmarked and a User without a cached hour; the entries stored for a
\* run are those recorded during that run, and the sums and counts returned
\* at the end of run N are those of the entries recorded during run N.
C10_RunsIsolated ==
    /\ rpc = "running" /\ queue = Built(<<>>, 1) =>
         /\ now = 0
         /\ OfRun(recorded, runs) = <<>>
         /\ \A u \in DOMAIN computer :
              /\ computer[u].status = "on"
              /\ computer[u].last_auto_shutdown = None
              /\ LiveTimers(u) = {1}
              /\ user[u].current_hour = <<None, None>>
    /\ \A r \in 1..runs :
         r < runs \/ rpc = "returned" =>
            SameEntries(OfRun(db, r), OfRun(recorded, r))
    /\ rpc = "returned" =>
         /\ \A i \in DOMAIN storage : storage[i].cache = <<>>
         /\ \A key \in Keys :
              LET mine == SelectSeq(OfRun(recorded, runs),
                                   LAMBDA r : r.histogram = key)
              IN /\ StatsCount(Stored, key, NoCid) = Len(mine)
                 /\ mine # <<>> =>
                      StatsSum(Stored, key, NoCid)
                          = SumSeq([i \in DOMAIN mine |-> mine[i].value])
    /\ \A i \in DOMAIN recorded :
         recorded[i].run = runs /\ rpc = "running" =>
            recorded[i].timestamp <= now

\* The second run has returned, and the two runs recorded different entries.
C10_Witness ==
    /\ rpc = "returned"
    /\ runs = 2
    /\ OfRun(recorded, 1) # <<>>
    /\ OfRun(recorded, 2) # <<>>
    /\ Len(OfRun(recorded, 1)) # Len(OfRun(recorded, 2))
    /\ Len(OfRun(db, 2)) = Len(OfRun(recorded, 2))


(***************************************************************************)
(* ActivityDistribution: the grid of hourly models of each computer, the   *)
(* Model of one slot, and the queries the simulation makes.                *)
(*                                                                         *)
(* The models live in a heap, ad.heap, and the grid ad.models holds their  *)
(* identities, so that two slots can hold the same object.  Durations are  *)
(* whole seconds.                                                          *)
(***************************************************************************)
simvars == <<config, runs, now, queue, computer, timers, user, storage, db,
             rpc, runner, failure, trans, recorded>>

DaysOfWeek == 7
HoursOfDay == 24
MaxPrevious == 168

MaxQueries == 1
Quantiles == 10

Slots == (0..(DaysOfWeek - 1)) \X (0..(HoursOfDay - 1))

previous_hour(day, hour) ==
    IF hour - 1 < 0
    THEN IF day - 1 < 0 THEN <<6, 23>> ELSE <<day - 1, 23>>
    ELSE <<day, hour - 1>>

\* The identity that stands for None.
NoModel == 0

\* self.__models[cid][day][hour], None on a KeyError.
get(models, cid, day, hour) ==
    IF cid \in DOMAIN models THEN models[cid][<<day, hour>>] ELSE NoModel

\* EmpiricalDistribution.is_complete: the sample has at least one value.
distribution_is_complete(data) == Len(data) > 0

is_complete(m) == distribution_is_complete(m.inactivity)

\* Model(inactivity, activity, off_duration, off_fraction): off_fraction
\* defaults to [0.0], each of its elements is a number or, after an extend,
\* a list.
Scalar(x) == [list |-> FALSE, v |-> <<x>>]

Nested(xs) == [list |-> TRUE, v |-> xs]

Model(inactivity, activity, off_duration, off_fraction) ==
    [inactivity |-> inactivity, activity |-> activity,
     off_duration |-> off_duration,
     off_fraction |-> IF off_fraction = <<>> THEN <<Scalar(0)>>
                      ELSE off_fraction,
     optimal_timeout |-> None]

builder == Model(<<>>, <<>>, <<>>, <<>>)

RECURSIVE Concat(_)
Concat(seqs) ==
    IF seqs = <<>> THEN <<>> ELSE Head(seqs) \o Concat(Tail(seqs))

\* Fault: an extension that takes the first of the others only.
multi_extendFirst(data, others) ==
    IF others = <<>> THEN data ELSE data \o Head(others)

\* EmpiricalDistribution.multi_extend: the data followed by the others'.
multi_extend(data, others) == data \o Concat(others)

\* Model.extend(others) without the reset of the memo.
extendKeepingMemo(m, others) ==
    [m EXCEPT
       !.inactivity = multi_extend(@, [i \in DOMAIN others |-> others[i].inactivity]),
       !.activity = multi_extend(@, [i \in DOMAIN others |-> others[i].activity]),
       !.off_duration = multi_extend(@, [i \in DOMAIN others |-> others[i].off_duration]),
       !.off_fraction = @ \o [i \in DOMAIN others |-> Nested(others[i].off_fraction)]]

\* Model.extend(others): the four samples grow and the memo is dropped.
extend(m, others) ==
    [m EXCEPT
       !.inactivity = multi_extend(@, [i \in DOMAIN others |-> others[i].inactivity]),
       !.activity = multi_extend(@, [i \in DOMAIN others |-> others[i].activity]),
       !.off_duration = multi_extend(@, [i \in DOMAIN others |-> others[i].off_duration]),
       !.off_fraction = @ \o [i \in DOMAIN others |-> Nested(others[i].off_fraction)],
       !.optimal_timeout = None]

\* Fault: a weight that is not clamped to [0, 1].
weighted_user_satisfactionUnclamped(t, timeout, threshold) ==
    LET den == 60 - threshold
        num == 60 - (t - timeout)
    IN IF t < timeout THEN Abs(den)
       ELSE IF den < 0 THEN 0 - num ELSE num

\* weighted_user_satisfaction(t, timeout, threshold) times |60 - threshold|:
\* 1 below the timeout, else weight(t - timeout, 60, threshold) clamped to
\* [0, 1].
weighted_user_satisfaction(t, timeout, threshold) ==
    LET den == 60 - threshold
        num == 60 - (t - timeout)
        n == IF den < 0 THEN 0 - num ELSE num
        d == Abs(den)
    IN IF t < timeout THEN d
       ELSE IF n < 0 THEN 0 ELSE IF n > d THEN d ELSE n

\* f(x) of the search times len(data) * |60 - threshold|: it has the sign
\* of mean(weighted_user_satisfaction) * 100 - target_satisfaction.
f(cfg, data, x) ==
    100 * SumSeq([i \in DOMAIN data |->
                     weighted_user_satisfaction(data[i], x,
                                                cfg.satisfaction_threshold)])
    - cfg.target_satisfaction * Len(data) * Abs(60 - cfg.satisfaction_threshold)

\* Model.__optimal_timeout_search: the root of f on [xmin, xmax] to the
\* second; without a change of sign (and on an empty sample, where f is not
\* a number) the except branch answers.
optimal_timeout_search(cfg, data) ==
    LET fx == [x \in cfg.xmin..cfg.xmax |-> f(cfg, data, x)]
        roots == {x \in cfg.xmin..cfg.xmax :
                     \/ fx[x] = 0
                     \/ x < cfg.xmax /\ fx[x] * fx[x + 1] < 0}
    IN IF data = <<>> THEN cfg.xmin
       ELSE IF fx[cfg.xmin] * fx[cfg.xmax] > 0
       THEN IF fx[cfg.xmax] > fx[cfg.xmin]
            THEN cfg.satisfaction_threshold
            ELSE cfg.xmin
       ELSE CHOOSE x \in roots : \A y \in roots : x <= y

\* Model.optimal_idle_timeout: the memo, filled by the search when empty.
\* Gives the value, the model afterwards and whether the search ran.
optimal_idle_timeout(cfg, m) ==
    IF m.optimal_timeout = None
    THEN LET x == optimal_timeout_search(cfg, m.inactivity)
             t == IF x < cfg.satisfaction_threshold THEN x
                  ELSE cfg.satisfaction_threshold
         IN [value |-> t, model |-> [m EXCEPT !.optimal_timeout = t],
             searched |-> TRUE]
    ELSE [value |-> m.optimal_timeout, model |-> m, searched |-> FALSE]


(***************************************************************************)
(* The lookup of the model of a slot, one iteration of its loop at a time. *)
(***************************************************************************)
\* The loop's condition without the test of completeness.
UnusableNone(heap, m) == m = NoModel

\* `distribution is None or not distribution.is_complete`
Unusable(heap, m) == m = NoModel \/ ~is_complete(heap[m])

\* self.__models[cid].setdefault(day, {}).setdefault(hour, distribution)
setdefault(models, cid, day, hour, m) ==
    IF models[cid][<<day, hour>>] = NoModel
    THEN [models EXCEPT ![cid][<<day, hour>>] = m]
    ELSE models

\* __distribution_for_hour(cid, day, hour) up to its loop.
distribution_for_hourCall ==
    /\ ad.pc = "built"
    /\ ad.queries < MaxQueries
    /\ \E cid \in {ad.servers[i] : i \in DOMAIN ad.servers}, slot \in ad.asked :
          LET m == get(ad.models, cid, slot[1], slot[2])
          IN ad' = [ad EXCEPT
                 !.pc = IF Unusable(ad.heap, m) THEN "while" ELSE "returned",
                 !.queries = @ + 1,
                 !.call = [cid |-> cid, day |-> slot[1], hour |-> slot[2],
                           d |-> slot[1], h |-> slot[2],
                           previous_count |-> 0, distribution |-> m],
                 !.returned = IF Unusable(ad.heap, m) THEN NoModel ELSE m,
                 !.query = "none",
                 !.result = None,
                 !.at_call = ad.models,
                 !.seen = {slot},
                 !.again = {}]
    /\ UNCHANGED simvars

\* One iteration of the loop of __distribution_for_hour: give up when
\* previous_count is over the limit, else step back one hour and fetch; a
\* complete model ends the loop, is stored in the requested slot if that slot
\* has no model, and is returned.
distribution_for_hourWhile ==
    /\ ad.pc = "while"
    /\ LET c == ad.call
           p == previous_hour(c.d, c.h)
           m == get(ad.models, c.cid, p[1], p[2])
           stepped == [c EXCEPT !.previous_count = @ + 1, !.d = p[1],
                                !.h = p[2], !.distribution = m]
       IN IF c.previous_count > MaxPrevious
          THEN ad' = [ad EXCEPT !.pc = "returned", !.returned = NoModel]
          ELSE IF Unusable(ad.heap, m)
          THEN ad' = [ad EXCEPT
                   !.call = stepped,
                   !.again = IF p \in ad.seen THEN @ \cup {p} ELSE @,
                   !.seen = @ \cup {p}]
          ELSE ad' = [ad EXCEPT
                   !.pc = "returned", !.call = stepped, !.returned = m,
                   !.models = setdefault(@, c.cid, c.day, c.hour, m),
                   !.again = IF p \in ad.seen THEN @ \cup {p} ELSE @,
                   !.seen = @ \cup {p}]
    /\ UNCHANGED simvars


(***************************************************************************)
(* The queries, from the return of the lookup on.  A query that raises     *)
(* ends the program; one that draws for ever stays in "drawing".           *)
(***************************************************************************)
Min(S) == CHOOSE x \in S : \A y \in S : x <= y

Range(seq) == {seq[i] : i \in DOMAIN seq}

\* numpy.ndarray.sort: the k-th element is the value with fewer than k
\* smaller elements and at least k that are not larger.
sort(data) ==
    [k \in DOMAIN data |->
        CHOOSE x \in Range(data) :
            /\ Cardinality({i \in DOMAIN data : data[i] < x}) < k
            /\ k <= Cardinality({i \in DOMAIN data : data[i] <= x})]

\* Fault: a spline fitted to the data as they come.
splineUnsorted(data, j) ==
    LET p == j * (Len(data) - 1)
        i == p \div Quantiles + 1
    IN 10 * data[i]
       + (10 * (p % Quantiles) * (data[i + 1] - data[i])) \div Quantiles

\* __fit_spline and the evaluation of the spline at numpy.random.random()
\* = j / Quantiles: the spline of degree 1 through the sorted data at
\* linspace(0, 1, size), in tenths of a second (rounded down to the tenth).
spline(data, j) ==
    LET p == j * (Len(data) - 1)
        i == p \div Quantiles + 1
    IN 10 * sort(data)[i]
       + (10 * (p % Quantiles) * (sort(data)[i + 1] - sort(data)[i]))
             \div Quantiles

\* EmpiricalDistribution.rvs, in tenths of a second: one of the values of a
\* sample of less than two, else a point of the spline.
rvs(data) ==
    IF Len(data) < 2 THEN {10 * x : x \in Range(data)}
    ELSE {spline(data, j) : j \in 0..(Quantiles - 1)}

\* draw_from_distribution, in tenths of a second: the values it can return.
draw_from_distribution(data, min_value, max_value) ==
    {min_value : rnd \in {r \in rvs(data) : r = 0}}
    \cup {rnd \in rvs(data) :
             rnd # 0 /\ rnd >= min_value /\ rnd <= max_value}

Answer(kind, value) ==
    ad' = [ad EXCEPT !.pc = "built", !.query = kind, !.result = value,
                     !.searched = FALSE]

Raise(kind, exception) ==
    ad' = [ad EXCEPT !.pc = "raised", !.query = kind, !.failure = exception,
                     !.searched = FALSE]

\* draw_from_distribution(model.<sample>, min_value, max_value) on the
\* model the lookup returned.  numpy.random.choice raises ValueError on an
\* empty sample; fitting the spline sorts the sample in place.
Draw(kind, sample, min_value, max_value) ==
    IF ad.returned = NoModel THEN Raise(kind, "AttributeError")
    ELSE LET data == ad.heap[ad.returned][sample]
             fitted == [ad EXCEPT !.heap[ad.returned][sample] =
                           IF Len(data) < 2 THEN data ELSE sort(data)]
         IN IF data = <<>> THEN Raise(kind, "ValueError")
            ELSE IF draw_from_distribution(data, min_value, max_value) = {}
            THEN ad' = [fitted EXCEPT !.pc = "drawing", !.query = kind]
            ELSE \E v \in draw_from_distribution(data, min_value, max_value) :
                    ad' = [fitted EXCEPT !.pc = "built", !.query = kind,
                                         !.result = v, !.searched = FALSE]

random_activity_for_timestamp ==
    /\ ad.pc = "returned"
    /\ Draw("random_activity", "activity", 1, 10 * ad.cfg.xmax)
    /\ UNCHANGED simvars

random_inactivity_for_timestamp ==
    /\ ad.pc = "returned"
    /\ Draw("random_inactivity", "inactivity", 10 * ad.cfg.xmin,
            10 * ad.cfg.xmax)
    /\ UNCHANGED simvars

off_interval_for_timestamp ==
    /\ ad.pc = "returned"
    /\ Draw("off_interval", "off_duration", 10 * ad.cfg.xmin,
            10 * ad.cfg.xmax)
    /\ UNCHANGED simvars

\* numpy.mean(model.off_fraction), in hundredths: a list with a list in it
\* has no mean.
off_frequency_for_hour ==
    /\ ad.pc = "returned"
    /\ IF ad.returned = NoModel
       THEN Raise("off_frequency", "AttributeError")
       ELSE LET fr == ad.heap[ad.returned].off_fraction
            IN IF \E i \in DOMAIN fr : fr[i].list
               THEN Raise("off_frequency", "ValueError")
               ELSE Answer("off_frequency",
                           (100 * SumSeq([i \in DOMAIN fr |-> fr[i].v[1]]))
                               \div Len(fr))
    /\ UNCHANGED simvars

\* __get_unique_models(cid): the models of the slots of a computer.
get_unique_models(models, cid) ==
    {models[cid][s] : s \in Slots} \ {NoModel}

RECURSIVE Listed(_)
Listed(ids) ==
    IF ids = {} THEN <<>> ELSE <<Min(ids)>> \o Listed(ids \ {Min(ids)})

\* __optimal_timeout_timestamp: the timeout of the model the lookup returned;
\* without one, __optimal_timeout_all: the timeout of the flat model of the
\* computer, which is its only model or a new one extended with all of them.
optimal_idle_timeout_for ==
    /\ ad.pc = "returned"
    /\ IF ad.returned # NoModel
       THEN LET o == optimal_idle_timeout(ad.cfg, ad.heap[ad.returned])
            IN ad' = [ad EXCEPT !.pc = "built",
                                !.query = "optimal_idle_timeout",
                                !.result = o.value, !.searched = o.searched,
                                !.heap[ad.returned] = o.model]
       ELSE LET flat_models == Listed(get_unique_models(ad.models, ad.call.cid))
            IN IF flat_models = <<>>
               THEN Raise("optimal_idle_timeout", "IndexError")
               ELSE IF Len(flat_models) > 1
               THEN LET flat == extend(builder, [i \in DOMAIN flat_models |->
                                                   ad.heap[flat_models[i]]])
                        o == optimal_idle_timeout(ad.cfg, flat)
                    IN ad' = [ad EXCEPT !.pc = "built",
                                        !.query = "optimal_idle_timeout",
                                        !.result = o.value,
                                        !.searched = o.searched]
               ELSE LET o == optimal_idle_timeout(ad.cfg,
                                                  ad.heap[flat_models[1]])
                    IN ad' = [ad EXCEPT !.pc = "built",
                                        !.query = "optimal_idle_timeout",
                                        !.result = o.value,
                                        !.searched = o.searched,
                                        !.heap[flat_models[1]] = o.model]
    /\ UNCHANGED simvars


(***************************************************************************)
(* The lookups of a grid as a trace can leave it: a few slots of pc1 with  *)
(* a model of their own, complete or not, or one model in all of its       *)
(* slots as a merge leaves it; pc2 has one complete slot.                  *)
(***************************************************************************)
Settings ==
    [xmin : {30}, xmax : {200}, satisfaction_threshold : {120},
     target_satisfaction : {90}, default_timeout : {600},
     noise_threshold : {100}]

CandidateSlots == <<<<0, 0>>, <<3, 5>>, <<6, 23>>>>

\* A model whose samples reach beyond the bounds of the queries: the spline
\* of its activity goes up to 205 (xmax is 200), that of its off durations
\* down to 28 (xmin is 30).
CompleteModel ==
    Model(<<105, 95>>, <<205, 195, 199>>, <<28, 32>>, <<Scalar(1)>>)

IncompleteModel == Model(<<>>, <<50>>, <<>>, <<>>)

\* The grid of pc1 with the given kind at each candidate slot; model i is
\* the one of candidate slot i, model 4 the one of pc2.
SparseGrid(kinds) ==
    [models |->
        [cid \in {"pc1", "pc2"} |->
            [s \in Slots |->
                IF cid = "pc2"
                THEN IF s = <<2, 2>> THEN 4 ELSE NoModel
                ELSE IF \E i \in 1..3 : CandidateSlots[i] = s
                                        /\ kinds[i] # "missing"
                THEN CHOOSE i \in 1..3 : CandidateSlots[i] = s
                ELSE NoModel]],
     heap |-> [i \in 1..4 |->
                 IF i = 4 THEN Model(<<60>>, <<20>>, <<>>, <<>>)
                 ELSE IF kinds[i] # "complete" THEN IncompleteModel
                 ELSE CompleteModel]]

\* The grid of pc1 after a merge over its slots: one model everywhere.  The
\* kind "long" is a complete model whose only activity is above xmax and
\* whose only off duration is below xmin: the filter keeps both.
SharedGrid(kind) ==
    [models |->
        [cid \in {"pc1", "pc2"} |->
            [s \in Slots |->
                IF cid = "pc2"
                THEN IF s = <<2, 2>> THEN 2 ELSE NoModel
                ELSE 1]],
     heap |-> <<CASE kind = "complete" -> CompleteModel
                  [] kind = "long" -> Model(<<60>>, <<250>>, <<10>>, <<>>)
                  [] OTHER -> IncompleteModel,
                Model(<<60>>, <<20>>, <<>>, <<>>)>>]

\* The simulation has not started.
Idle ==
    /\ config \in {c \in Configurations({Tick}, {1}) :
                      ~c.disable_auto_shutdown /\ c.cache_size = 1}
    /\ runs = 0
    /\ now = 0
    /\ queue = <<>>
    /\ computer = <<>>
    /\ timers = <<>>
    /\ user = <<>>
    /\ storage = <<>>
    /\ db = <<>>
    /\ rpc = "ready"
    /\ runner = NoRunner
    /\ failure = "none"
    /\ trans = <<>>
    /\ recorded = <<>>

InitLookup ==
    /\ \E g \in {SparseGrid(k) :
                    k \in [1..3 -> {"missing", "complete", "incomplete"}]}
                \cup {SharedGrid(k) : k \in {"complete", "incomplete", "long"}},
          cfg \in Settings :
          ad = [pc |-> "built", cfg |-> cfg, servers |-> <<"pc1", "pc2">>,
                models |-> g.models, heap |-> g.heap,
                asked |-> {<<0, 0>>, <<0, 1>>, <<3, 4>>, <<6, 23>>},
                queries |-> 0,
                call |-> [cid |-> NoCid, day |-> 0, hour |-> 0, d |-> 0,
                          h |-> 0, previous_count |-> 0,
                          distribution |-> NoModel],
                returned |-> NoModel,
                at_call |-> g.models,
                seen |-> {}, again |-> {}, query |-> "none", result |-> None,
                searched |-> FALSE, failure |-> "none"]
    /\ Idle

NextLookup ==
    \/ distribution_for_hourCall
    \/ distribution_for_hourWhile
    \/ random_activity_for_timestamp
    \/ random_inactivity_for_timestamp
    \/ off_interval_for_timestamp
    \/ off_frequency_for_hour
    \/ optimal_idle_timeout_for

SpecLookup == InitLookup /\ [][NextLookup]_vars


(***************************************************************************)
(* What the properties of the lookup read.                                 *)
(***************************************************************************)
\* The slot k hours before (day, hour), around the week.
Back(day, hour, k) ==
    LET i == (day * HoursOfDay + hour + DaysOfWeek * HoursOfDay - k)
                 % (DaysOfWeek * HoursOfDay)
    IN <<i \div HoursOfDay, i % HoursOfDay>>

\* The model a lookup is to return: the nearest complete one going back.
Nearest(models, heap, cid, day, hour) ==
    LET hits == {k \in 0..(DaysOfWeek * HoursOfDay - 1) :
                    ~Unusable(heap, models[cid][Back(day, hour, k)])}
    IN IF hits = {} THEN NoModel
       ELSE models[cid][Back(day, hour, Min(hits))]

\* A query has been answered, or has failed, after a lookup that found no
\* complete model in any slot of the computer.
AnsweredWithoutModel ==
    /\ ad.pc # "none"
    /\ ad.query # "none"
    /\ ad.pc # "drawing"
    /\ ad.returned = NoModel

\* C11: the walk of one lookup takes at most 168 steps back and fetches no
\* slot more than once.
C11_WalkBounded ==
    ad.pc # "none" =>
        /\ ad.call.previous_count <= MaxPrevious
        /\ ad.again = {}

\* C12: a lookup returns the model of the requested slot if it is complete,
\* else the first complete one going back around the week, and no model only
\* when no slot of the computer has a complete one; never an incomplete one.
C12_NearestComplete ==
    ad.pc = "returned" =>
        /\ ad.returned = Nearest(ad.at_call, ad.heap, ad.call.cid,
                                 ad.call.day, ad.call.hour)
        /\ ad.returned # NoModel => is_complete(ad.heap[ad.returned])

\* The lookup of (0, 0) has wrapped to (6, 23) and found a complete model
\* there.
C12_Witness ==
    /\ ad.pc = "returned"
    /\ ad.call.day = 0 /\ ad.call.hour = 0
    /\ ad.call.d = 6 /\ ad.call.h = 23
    /\ ad.returned # NoModel
    /\ is_complete(ad.heap[ad.returned])
    /\ Unusable(ad.heap, ad.at_call["pc1"][<<0, 0>>])

\* C13: when no slot of the computer has a complete model, none of the five
\* queries raises; each gives a number.
C13_NoRaiseWithoutModel ==
    AnsweredWithoutModel => ad.failure = "none" /\ ad.result # None

\* C14: optimal_idle_timeout of a computer without a usable inactivity
\* sample is the default timeout, and the search does not run.
C14_DefaultTimeout ==
    (AnsweredWithoutModel /\ ad.query = "optimal_idle_timeout") =>
        /\ ad.failure = "none"
        /\ ad.result = ad.cfg.default_timeout
        /\ ~ad.searched


(***************************************************************************)
(* The construction of an ActivityDistribution from a trace: parse,        *)
(* filter, merge.  A trace is a set of records [PC, Type, data], data      *)
(* giving the Intervals of the slots the record lists.                     *)
(***************************************************************************)
Types == {"InactivityIntervals", "ActivityIntervals", "OffIntervals",
          "OffFrequencies"}

\* The filter without the test `i > 0`.
filterBoundsOnly(cfg, t, data) ==
    IF t = "InactivityIntervals"
    THEN SelectSeq(data, LAMBDA i : cfg.xmin <= i /\ i <= cfg.xmax)
    ELSE data

\* __filter(t, data)
filter(cfg, t, data) ==
    LET bounded == IF t = "InactivityIntervals"
                   THEN SelectSeq(data, LAMBDA i : cfg.xmin <= i /\ i <= cfg.xmax)
                   ELSE data
    IN IF t # "OffFrequencies"
       THEN SelectSeq(bounded, LAMBDA i : i > 0)
       ELSE bounded

\* The computers of the trace, _Total left out, sorted.
TracePCs(trace) ==
    SelectSeq(<<"pc1", "pc2">>, LAMBDA pc : \E r \in trace : r.PC = pc)

\* {t['Type']: t['data'] for t in trace} of one computer: the data of a type,
\* if the computer has a record of it.
HasType(trace, pc, t) == \E r \in trace : r.PC = pc /\ r.Type = t

DataOf(trace, pc, t) == (CHOOSE r \in trace : r.PC = pc /\ r.Type = t).data

RECURSIVE ListedSlots(_)
ListedSlots(slots) ==
    IF slots = {} THEN <<>>
    ELSE LET first == CHOOSE s \in slots :
                         \A o \in slots : s[1] * HoursOfDay + s[2]
                                          <= o[1] * HoursOfDay + o[2]
         IN <<first>> \o ListedSlots(slots \ {first})

\* The (computer, slot) pairs that get a model, in the order of parsing: the
\* slots of a computer are those any of its records lists.
RECURSIVE ParsedEntries(_, _)
ParsedEntries(trace, pcs) ==
    IF pcs = <<>> THEN <<>>
    ELSE LET slots == ListedSlots({s \in Slots :
                                     \E r \in trace : /\ r.PC = Head(pcs)
                                                      /\ s \in DOMAIN r.data})
         IN [i \in DOMAIN slots |-> <<Head(pcs), slots[i]>>]
            \o ParsedEntries(trace, Tail(pcs))

\* dct[t] of a slot: missing when the computer has no record of the type or
\* the record does not list the slot.
Lacks(trace, e) ==
    \E t \in Types : \/ ~HasType(trace, e[1], t)
                     \/ e[2] \notin DOMAIN DataOf(trace, e[1], t)

\* __parse_model: the model of one slot of one computer.
parse_model(cfg, trace, e) ==
    LET of(t) == filter(cfg, t, DataOf(trace, e[1], t)[e[2]])
        fr == of("OffFrequencies")
    IN Model(of("InactivityIntervals"), of("ActivityIntervals"),
             of("OffIntervals"), [i \in DOMAIN fr |-> Scalar(fr[i])])

IndexOf(seq, x) == CHOOSE i \in DOMAIN seq : seq[i] = x

\* The grid over the given computers that holds model ids[e] at entry e of
\* entries and nothing elsewhere.
GridOf(pcs, entries) ==
    [cid \in Range(pcs) |->
        [s \in Slots |->
            IF \E i \in DOMAIN entries : entries[i] = <<cid, s>>
            THEN IndexOf(entries, <<cid, s>>)
            ELSE NoModel]]

\* The models of the slots of a grid, in the order of iteration.
ModelsOf(models, pcs, slots) ==
    LET all == Concat([i \in DOMAIN pcs |->
                          [k \in DOMAIN slots |-> models[pcs[i]][slots[k]]]])
    IN SelectSeq(all, LAMBDA m : m # NoModel)

\* for d in range(7), for h in range(24)
AllSlots ==
    [i \in 1..(DaysOfWeek * HoursOfDay) |->
        <<(i - 1) \div HoursOfDay, (i - 1) % HoursOfDay>>]

\* A new model, extended with the models of the given identities.
Merged(heap, ids) == extend(builder, [i \in DOMAIN ids |-> heap[ids[i]]])

\* __merge_per_hour: one new model for each slot that has a model, made of
\* the models of that slot of all computers; every computer gets them all.
merge_per_hour(g, pcs) ==
    LET slots == ListedSlots({s \in Slots :
                                \E cid \in Range(pcs) : g.models[cid][s] # NoModel})
        new == [k \in DOMAIN slots |->
                   Merged(g.heap, ModelsOf(g.models, pcs, <<slots[k]>>))]
    IN [models |-> [cid \in Range(pcs) |->
                      [s \in Slots |->
                          IF \E k \in DOMAIN slots : slots[k] = s
                          THEN Len(g.heap) + IndexOf(slots, s)
                          ELSE NoModel]],
        heap |-> g.heap \o new]

\* __merge_per_pc: one new model for each computer, made of the models of all
\* its slots, in every slot of its week.
merge_per_pc(g, pcs) ==
    LET new == [i \in DOMAIN pcs |->
                   Merged(g.heap, ModelsOf(g.models, <<pcs[i]>>, AllSlots))]
    IN [models |-> [cid \in Range(pcs) |->
                      [s \in Slots |-> Len(g.heap) + IndexOf(pcs, cid)]],
        heap |-> g.heap \o new]

\* __merge_per_hour_and_pc: one new model, made of all the models, in every
\* slot of every computer.
merge_per_hour_and_pc(g, pcs) ==
    [models |-> [cid \in Range(pcs) |-> [s \in Slots |-> Len(g.heap) + 1]],
     heap |-> Append(g.heap, Merged(g.heap, ModelsOf(g.models, pcs, AllSlots)))]

\* The merge with a copy of every merged model for each computer, in place
\* of the one object.
merge_histogramsCopies(g, pcs, merge_by_pc, merge_by_hour) ==
    LET m == IF merge_by_hour /\ merge_by_pc THEN merge_per_hour_and_pc(g, pcs)
             ELSE IF merge_by_hour THEN merge_per_hour(g, pcs)
             ELSE IF merge_by_pc THEN merge_per_pc(g, pcs)
             ELSE g
        n == Len(m.heap)
    IN [models |-> [cid \in Range(pcs) |->
                      [s \in Slots |->
                          IF m.models[cid][s] = NoModel THEN NoModel
                          ELSE m.models[cid][s]
                               + n * (IndexOf(pcs, cid) - 1)]],
        heap |-> Concat([i \in DOMAIN pcs |-> m.heap])]

\* __merge_histograms
merge_histograms(g, pcs, merge_by_pc, merge_by_hour) ==
    IF merge_by_hour /\ merge_by_pc THEN merge_per_hour_and_pc(g, pcs)
    ELSE IF merge_by_hour THEN merge_per_hour(g, pcs)
    ELSE IF merge_by_pc THEN merge_per_pc(g, pcs)
    ELSE g


MaxCalls == 3

\* ActivityDistribution.__init__: __parse_trace, which ends with the merge.
\* A slot of a computer that lacks one of the four types raises KeyError.
parse_trace ==
    /\ ad.pc = "new"
    /\ LET pcs == TracePCs(ad.trace)
           entries == ParsedEntries(ad.trace, pcs)
           g == [models |-> GridOf(pcs, entries),
                 heap |-> [i \in DOMAIN entries |->
                             parse_model(ad.cfg, ad.trace, entries[i])]]
           m == merge_histograms(g, pcs, ad.merge_by_pc, ad.merge_by_hour)
       IN IF \E i \in DOMAIN entries : Lacks(ad.trace, entries[i])
          THEN LET bad == CHOOSE i \in DOMAIN entries :
                             /\ Lacks(ad.trace, entries[i])
                             /\ \A j \in 1..(i - 1) : ~Lacks(ad.trace, entries[j])
               IN ad' = [ad EXCEPT
                        !.pc = "raised", !.failure = "KeyError",
                        !.servers = SubSeq(pcs, 1, IndexOf(pcs, entries[bad][1]))]
          ELSE ad' = [ad EXCEPT
                   !.pc = "built", !.servers = pcs, !.parsed = g.models,
                   !.models = m.models, !.heap = m.heap, !.before = m.heap]
    /\ UNCHANGED simvars

\* Model.extend(others) on the model of slot (0, 0) of a computer, others
\* being one model.
ModelExtend ==
    /\ ad.pc = "built"
    /\ Len(ad.log) < MaxCalls
    /\ \E cid \in Range(ad.servers), s \in {<<0, 0>>},
          others \in {<<Model(<<150>>, <<20>>, <<300>>, <<Scalar(1)>>)>>} :
          /\ ad.models[cid][s] # NoModel
          /\ ad' = [ad EXCEPT
                 !.heap[ad.models[cid][s]] = extend(@, others),
                 !.before = ad.heap,
                 !.log = Append(@, [op |-> "extend", cid |-> cid, slot |-> s,
                                    value |-> None])]
    /\ UNCHANGED simvars

\* Model.optimal_idle_timeout() on the model of slot (0, 0) of a computer.
ModelOptimalIdleTimeout ==
    /\ ad.pc = "built"
    /\ Len(ad.log) < MaxCalls
    /\ \E cid \in Range(ad.servers), s \in {<<0, 0>>} :
          /\ ad.models[cid][s] # NoModel
          /\ LET o == optimal_idle_timeout(ad.cfg, ad.heap[ad.models[cid][s]])
             IN ad' = [ad EXCEPT
                    !.heap[ad.models[cid][s]] = o.model,
                    !.before = ad.heap,
                    !.log = Append(@, [op |-> "optimal_idle_timeout",
                                       cid |-> cid, slot |-> s,
                                       value |-> o.value])]
    /\ UNCHANGED simvars

(***************************************************************************)
(* The traces: for each computer, the inactivity of slot (0, 0), whether   *)
(* slot (0, 1) is listed and with what, and which types have a record.     *)
(***************************************************************************)
Shapes(inactivities, seconds, types) ==
    [inactivity : inactivities, second : seconds, types : types]

\* The Intervals of a type in each of the two slots.
IntervalsOf(shape, t) ==
    LET first == CASE t = "InactivityIntervals" -> shape.inactivity
                   [] t = "ActivityIntervals" -> <<0, 50>>
                   [] t = "OffIntervals" -> <<900, 0 - 1>>
                   [] OTHER -> <<0, 1>>
        second == CASE t = "InactivityIntervals" ->
                           IF shape.second = "full" THEN <<60>> ELSE <<>>
                    [] t = "ActivityIntervals" -> <<20>>
                    [] t = "OffIntervals" -> <<>>
                    [] OTHER -> <<>>
    IN [s \in (IF shape.second = "absent" THEN {<<0, 0>>}
               ELSE {<<0, 0>>, <<0, 1>>}) |->
           IF s = <<0, 0>> THEN first ELSE second]

\* The records of one computer.
RecordsOf(pc, shape) ==
    CASE shape.types = "none" -> {}
      [] shape.types = "only_off_frequencies" ->
            {[PC |-> pc, Type |-> "OffFrequencies", data |-> <<>>]}
      [] shape.types = "no_inactivity" ->
            {[PC |-> pc, Type |-> t, data |-> IntervalsOf(shape, t)] :
                t \in Types \ {"InactivityIntervals"}}
      [] OTHER ->
            {[PC |-> pc, Type |-> t, data |-> IntervalsOf(shape, t)] :
                t \in Types}

Traces ==
    {RecordsOf("pc1", s1) \cup RecordsOf("pc2", s2) :
        s1 \in Shapes({<<>>, <<100>>, <<10, 100, 250>>, <<0 - 5, 0, 40>>,
                       <<100, 100, 200>>},
                      {"absent"}, {"all"})
               \cup Shapes({<<100>>}, {"empty", "full"}, {"all"})
               \cup Shapes({<<100>>}, {"absent"},
                           {"no_inactivity", "only_off_frequencies"}),
        s2 \in Shapes({<<>>, <<100>>}, {"absent"}, {"all"})
               \cup Shapes({<<10, 100, 250>>}, {"full"}, {"all"})
               \cup Shapes({<<100>>}, {"absent"},
                           {"none", "no_inactivity", "only_off_frequencies"})}
    \cup {RecordsOf("pc1", s1)
          \cup {[PC |-> "_Total", Type |-> "InactivityIntervals",
                 data |-> [s \in {<<0, 0>>} |-> <<100>>]]} :
            s1 \in Shapes({<<100>>}, {"absent", "full"}, {"all"})
                   \cup Shapes({<<100>>}, {"absent"}, {"no_inactivity"})}

InitBuild ==
    /\ \E trace \in Traces, cfg \in Settings, by_pc \in BOOLEAN,
          by_hour \in BOOLEAN :
          ad = [pc |-> "new", cfg |-> cfg, merge_by_pc |-> by_pc,
                merge_by_hour |-> by_hour, trace |-> trace, servers |-> <<>>,
                parsed |-> <<>>, models |-> <<>>, heap |-> <<>>,
                before |-> <<>>, log |-> <<>>, failure |-> "none"]
    /\ Idle

NextBuild ==
    \/ parse_trace
    \/ ModelExtend
    \/ ModelOptimalIdleTimeout

SpecBuild == InitBuild /\ [][NextBuild]_vars


(***************************************************************************)
(* What the properties of the construction read.                           *)
(***************************************************************************)
\* The entries of a grid that hold a model, among the two slots a trace
\* fills and one it leaves empty.
EntriesOf(models) ==
    {e \in Range(ad.servers) \X {<<0, 0>>, <<0, 1>>, <<3, 5>>} :
        models[e[1]][e[2]] # NoModel}

ModelAt(e) == ad.heap[ad.models[e[1]][e[2]]]

Count(seq, v) == Cardinality({i \in DOMAIN seq : seq[i] = v})

\* The model an entry had when parsed, before the merge.
Parsed(e) == ad.heap[ad.parsed[e[1]][e[2]]]

\* The entries the merge puts in one model, as __merge_histograms chooses.
Together(a, b) ==
    IF ad.merge_by_hour /\ ad.merge_by_pc THEN TRUE
    ELSE IF ad.merge_by_hour THEN a[2] = b[2]
    ELSE IF ad.merge_by_pc THEN a[1] = b[1]
    ELSE a = b

\* The value optimal_idle_timeout() is to give on the sample a model has now.
Fresh(m) ==
    LET x == optimal_timeout_search(ad.cfg, m.inactivity)
    IN IF x < ad.cfg.satisfaction_threshold THEN x
       ELSE ad.cfg.satisfaction_threshold

IsSubsequence(a, b) ==
    \E pick \in [DOMAIN a -> DOMAIN b] :
        /\ \A i \in DOMAIN a : a[i] = b[pick[i]]
        /\ \A i, j \in DOMAIN a : i < j => pick[i] < pick[j]

\* C15: after the merge two entries hold the same model iff (same computer
\* or merge-by-PC) and (same slot or merge-by-hour), and the inactivity of an
\* entry's model is the union of the parsed samples of the entries it shares
\* the model with.
C15_SharingByFlags ==
    (ad.pc = "built" /\ ad.log = <<>>) =>
        /\ \A a, b \in EntriesOf(ad.models) :
              ad.models[a[1]][a[2]] = ad.models[b[1]][b[2]]
              <=> /\ (a[1] = b[1] \/ ad.merge_by_pc)
                  /\ (a[2] = b[2] \/ ad.merge_by_hour)
        /\ \A a \in EntriesOf(ad.models) :
              LET sharing == {b \in EntriesOf(ad.parsed) :
                                 /\ (a[1] = b[1] \/ ad.merge_by_pc)
                                 /\ (a[2] = b[2] \/ ad.merge_by_hour)}
              IN \A v \in Range(ModelAt(a).inactivity)
                          \cup UNION {Range(Parsed(b).inactivity) : b \in sharing} :
                    Count(ModelAt(a).inactivity, v)
                    = Cardinality(UNION {{<<b, k>> :
                          k \in {j \in DOMAIN Parsed(b).inactivity :
                                    Parsed(b).inactivity[j] = v}} :
                          b \in sharing})

C18_MismatchFails ==
    (ad.pc \in {"built", "raised"}
     /\ \E t, u \in Types :
           {r.PC : r \in {q \in ad.trace : q.Type = t}} \ {"_Total"}
           # {r.PC : r \in {q \in ad.trace : q.Type = u}} \ {"_Total"})
    => ad.pc = "raised"

\* C19: every computer of servers has a slot with a complete model.
C19_ServersHaveCompleteBucket ==
    ad.pc = "built" =>
        \A cid \in Range(ad.servers) :
           \E s \in Slots : ~Unusable(ad.heap, ad.models[cid][s])

\* C20: when the trace has been parsed, in every parsed model the inactivity is within [xmin, xmax] and
\* positive, the activity and the off durations are positive, the off
\* fractions of a slot that has some are the trace's, and every sample is
\* what is left of the trace's Intervals, in their order.
C20_FilterOnlyRemoves ==
    (ad.pc = "built" /\ ad.log = <<>>) =>
        \A e \in EntriesOf(ad.parsed) :
           LET m == ad.heap[ad.parsed[e[1]][e[2]]]
               raw(t) == DataOf(ad.trace, e[1], t)[e[2]]
           IN /\ \A i \in DOMAIN m.inactivity :
                    /\ ad.cfg.xmin <= m.inactivity[i]
                    /\ m.inactivity[i] <= ad.cfg.xmax
                    /\ m.inactivity[i] > 0
              /\ \A i \in DOMAIN m.activity : m.activity[i] > 0
              /\ \A i \in DOMAIN m.off_duration : m.off_duration[i] > 0
              /\ raw("OffFrequencies") # <<>>
                 => m.off_fraction
                    = [i \in DOMAIN raw("OffFrequencies") |->
                          Scalar(raw("OffFrequencies")[i])]
              /\ IsSubsequence(m.inactivity, raw("InactivityIntervals"))
              /\ IsSubsequence(m.activity, raw("ActivityIntervals"))
              /\ IsSubsequence(m.off_duration, raw("OffIntervals"))

\* A slot was parsed whose trace had an inactivity below xmin, one above
\* xmax, a zero activity, a negative off duration and a zero off fraction.
C20_Witness ==
    /\ ad.pc = "built"
    /\ ad.log = <<>>
    /\ <<"pc1", <<0, 0>>>> \in EntriesOf(ad.parsed)
    /\ DataOf(ad.trace, "pc1", "InactivityIntervals")[<<0, 0>>] = <<10, 100, 250>>
    /\ ad.heap[ad.parsed["pc1"][<<0, 0>>]].inactivity = <<100>>
    /\ ad.heap[ad.parsed["pc1"][<<0, 0>>]].activity = <<50>>
    /\ ad.heap[ad.parsed["pc1"][<<0, 0>>]].off_duration = <<900>>
    /\ ad.heap[ad.parsed["pc1"][<<0, 0>>]].off_fraction = <<Scalar(0), Scalar(1)>>

(***************************************************************************)
(* Third part: the hour column of the histogram table, the sampling        *)
(* queries, the EmpiricalDistribution, the satisfaction weight, the        *)
(* timeout search and Stats.user_satisfaction.                             *)
(***************************************************************************)

\* Fault: an hour column that forgets the week.
t_hourNoWeek(timestamp) == timestamp \div HOUR

\* histogram.py, trigger t_hour: the hour column of the row just inserted,
\* (CAST(timestamp AS INTEGER) % WEEK(1)) / 3600 in integer arithmetic.
t_hour(timestamp) == (timestamp % WEEK) \div HOUR

Searched ==
    IF ad.pc = "built" /\ ad.log # <<>>
       /\ ad.log[Len(ad.log)].op = "optimal_idle_timeout"
    THEN {ad.heap[ad.models[ad.log[Len(ad.log)].cid][ad.log[Len(ad.log)].slot]]}
    ELSE {}

\* C26: with a satisfaction threshold above 60, the weight of an inactivity
\* t at a timeout x is 1 when t < x; for t >= x it is 0 up to t = x + 60,
\* then increases linearly to 1 at t = x + satisfaction_threshold and is 1
\* beyond; it is always within [0, 1].  (Weights are scaled by
\* satisfaction_threshold - 60.)
C26_WeightRamp ==
    \A m \in Searched : \A i \in DOMAIN m.inactivity :
        \A x \in ad.cfg.xmin..ad.cfg.xmax :
            LET t == m.inactivity[i]
                thr == ad.cfg.satisfaction_threshold
                w == weighted_user_satisfaction(t, x, thr)
            IN /\ thr > 60
               /\ w >= 0 /\ w <= thr - 60
               /\ t < x => w = thr - 60
               /\ (t >= x /\ t <= x + 60) => w = 0
               /\ (t >= x + 60 /\ t <= x + thr) => w = t - x - 60
               /\ t >= x + thr => w = thr - 60

\* A search has weighed a sample with the values 100 and 150: at the
\* timeouts 30..200 the value 150 is on every piece of the weight.
C26_Witness ==
    \E m \in Searched :
        /\ \E i \in DOMAIN m.inactivity : m.inactivity[i] = 150
        /\ \E i \in DOMAIN m.inactivity : m.inactivity[i] = 100
        /\ weighted_user_satisfaction(150, 30, ad.cfg.satisfaction_threshold)
               = ad.cfg.satisfaction_threshold - 60
        /\ weighted_user_satisfaction(150, 60, ad.cfg.satisfaction_threshold)
               = 30
        /\ weighted_user_satisfaction(150, 120, ad.cfg.satisfaction_threshold)
               = 0

\* C26 as stated: for t >= x the weight is 1 up to t = x + 60, decreases
\* linearly to 0 at t = x + satisfaction_threshold and is 0 beyond; it is
\* non-increasing in t at a fixed timeout.
C26_RampDownwards ==
    \A m \in Searched : \A i, j \in DOMAIN m.inactivity :
        \A x \in ad.cfg.xmin..ad.cfg.xmax :
            LET t == m.inactivity[i]
                u == m.inactivity[j]
                thr == ad.cfg.satisfaction_threshold
                w == weighted_user_satisfaction(t, x, thr)
            IN /\ w >= 0 /\ w <= thr - 60
               /\ t < x => w = thr - 60
               /\ (t >= x /\ t <= x + 60) => w = thr - 60
               /\ (t >= x + 60 /\ t <= x + thr) => w = x + thr - t
               /\ t >= x + thr => w = 0
               /\ t <= u => w >= weighted_user_satisfaction(u, x, thr)

\* C27: whenever some timeout of [xmin, xmax] gives exactly the target
\* (f is zero there), optimal_idle_timeout() returns, to the second, a
\* timeout at which f is zero or changes sign.
C27_RootReturned ==
    \A m \in Searched :
        LET fx == [x \in ad.cfg.xmin..ad.cfg.xmax |->
                      f(ad.cfg, m.inactivity, x)]
            v == ad.log[Len(ad.log)].value
        IN (m.inactivity # <<>> /\ \E x \in DOMAIN fx : fx[x] = 0) =>
              \E x \in DOMAIN fx :
                  \/ fx[x] = 0 /\ x \in (v - 1)..(v + 1)
                  \/ /\ x < ad.cfg.xmax
                     /\ fx[x] * fx[x + 1] < 0
                     /\ x \in (v - 1)..v

\* C28: when f has neither a zero nor a change of sign on [xmin, xmax],
\* optimal_idle_timeout() returns xmin or xmax, the one at which f is closer
\* to zero, and xmin when f(xmin) is already above zero.
C28_CloserBound ==
    \A m \in Searched :
        LET fx == [x \in ad.cfg.xmin..ad.cfg.xmax |->
                      f(ad.cfg, m.inactivity, x)]
            v == ad.log[Len(ad.log)].value
        IN (/\ m.inactivity # <<>>
            /\ \/ \A x \in DOMAIN fx : fx[x] > 0
               \/ \A x \in DOMAIN fx : fx[x] < 0) =>
              /\ v \in {ad.cfg.xmin, ad.cfg.xmax}
              /\ Abs(fx[ad.cfg.xmin]) < Abs(fx[ad.cfg.xmax]) => v = ad.cfg.xmin
              /\ Abs(fx[ad.cfg.xmax]) < Abs(fx[ad.cfg.xmin]) => v = ad.cfg.xmax
              /\ fx[ad.cfg.xmin] > 0 => v = ad.cfg.xmin

\* C29: for the sample just searched and the same xmin, xmax and threshold,
\* a lower target never gives a higher timeout: over the targets 10, 50 and
\* 90, optimal_idle_timeout() of a model with that sample does not decrease
\* as the target increases.
C29_MonotoneInTarget ==
    \A m \in Searched : \A t1, t2 \in {10, 50, 90} :
        t1 <= t2 =>
            optimal_idle_timeout(
                [ad.cfg EXCEPT !.target_satisfaction = t1],
                [m EXCEPT !.optimal_timeout = None]).value
            <= optimal_idle_timeout(
                [ad.cfg EXCEPT !.target_satisfaction = t2],
                [m EXCEPT !.optimal_timeout = None]).value

C21_SamplingBounds ==
    (ad.pc = "built" /\ ad.query # "none" /\ ad.result # None) =>
        /\ ad.query = "random_activity" =>
              1 <= ad.result /\ ad.result <= 10 * ad.cfg.xmax
        /\ ad.query = "random_inactivity" =>
              /\ 10 * ad.cfg.xmin <= ad.result
              /\ ad.result <= 10 * ad.cfg.xmax
              /\ ad.result <= 10 * ad.cfg.noise_threshold
        /\ ad.query = "off_interval" =>
              /\ 10 * ad.cfg.xmin <= ad.result
              /\ ad.result <= 10 * ad.cfg.xmax

\* The sample a sampling query has just drawn from, if it answered.
Drawn ==
    IF ad.pc = "built" /\ ad.result # None /\ ad.returned # NoModel
       /\ ad.query \in {"random_activity", "random_inactivity", "off_interval"}
    THEN {ad.heap[ad.returned][
              CASE ad.query = "random_activity" -> "activity"
                [] ad.query = "random_inactivity" -> "inactivity"
                [] OTHER -> "off_duration"]}
    ELSE {}

\* C22: every draw from a non-empty sample S lies in [min(S), max(S)]; the
\* inverse map is non-decreasing, does not depend on the order of S, passes
\* through the sorted sample at equally spaced points of [0, 1], is linear
\* between them (to the tenth) and never leaves [min(S), max(S)]; a sample of
\* one value v draws exactly v.
C22_DrawWithinSample ==
    \A S \in Drawn :
        LET lo == Min(Range(S))
            hi == CHOOSE x \in Range(S) : \A y \in Range(S) : x >= y
            n == Len(S)
            q == 0..(Quantiles - 1)
        IN /\ 10 * lo <= ad.result /\ ad.result <= 10 * hi
           /\ n = 1 => ad.result = 10 * S[1]
           /\ n >= 2 =>
                 /\ \E j \in q : ad.result = spline(S, j)
                 /\ spline(S, 0) = 10 * lo
                 /\ \A j \in q :
                       /\ 10 * lo <= spline(S, j) /\ spline(S, j) <= 10 * hi
                       /\ j > 0 => spline(S, j - 1) <= spline(S, j)
                       /\ spline(S, j)
                          = spline([i \in 1..n |-> S[n + 1 - i]], j)
                       /\ (j * (n - 1)) % Quantiles = 0 =>
                             \E x \in Range(S) :
                                /\ spline(S, j) = 10 * x
                                /\ Cardinality({i \in 1..n : S[i] < x})
                                   <= (j * (n - 1)) \div Quantiles
                                /\ (j * (n - 1)) \div Quantiles
                                   < Cardinality({i \in 1..n : S[i] <= x})
                       /\ (/\ j + 2 \in q
                           /\ (j * (n - 1)) \div Quantiles
                              = ((j + 2) * (n - 1)) \div Quantiles) =>
                             Abs(spline(S, j + 2) - 2 * spline(S, j + 1)
                                 + spline(S, j)) <= 1

\* A draw from a sample of three values, given out of order, fell strictly
\* between two of them; the sample is left sorted.
C22_Witness ==
    /\ ad.query = "random_activity"
    /\ \E S \in Drawn :
          /\ S = <<195, 199, 205>>
          /\ ad.result > 10 * 195
          /\ ad.result < 10 * 199

\* C23: a model can be built with an empty sample, and a draw from it fails
\* with the empty-distribution error (EmptyDistributionError), the sample
\* staying empty.
C23_EmptyDrawError ==
    \A k \in {<<"random_activity", "activity">>,
              <<"random_inactivity", "inactivity">>,
              <<"off_interval", "off_duration">>} :
        (/\ ad.pc = "raised"
         /\ ad.query = k[1]
         /\ ad.returned # NoModel
         /\ ad.heap[ad.returned][k[2]] = <<>>) =>
            ad.failure = "EmptyDistributionError"

(***************************************************************************)
(* Stats.user_satisfaction over the inactivity intervals a run recorded.   *)
(* The training distribution is reduced to its servers and to the timeout  *)
(* it answers for each of them.                                            *)
(***************************************************************************)
MaxRecords == 3

\* numpy.mean of a list of fractions.
RECURSIVE mean(_)
mean(lst) ==
    IF Len(lst) = 1 THEN lst[1]
    ELSE Plus(Times(Frac(1, Len(lst)), lst[Len(lst)]),
              Times(Frac(Len(lst) - 1, Len(lst)),
                    mean(SubSeq(lst, 1, Len(lst) - 1))))

\* Fault: the computers without a sample count as zero.
user_satisfactionAllServers(st, servers, timeout, threshold) ==
    LET key == "INACTIVITY_TIME"
        per(cid) ==
            LET all == StatsEvents(st, key, cid)
            IN IF all = <<>> THEN Frac(0, 1)
               ELSE Frac(100 * SumSeq([i \in DOMAIN all |->
                            weighted_user_satisfaction(
                                all[i].value, timeout[cid], threshold)]),
                         StatsCount(st, key, cid) * Abs(60 - threshold))
    IN mean([i \in DOMAIN servers |-> per(servers[i])])

\* Stats.user_satisfaction: for each server of the training distribution
\* with a count above zero, the sum of the weights of its intervals over the
\* count, times 100; the mean of that list, 0.0 for an empty list.
user_satisfaction(st, servers, timeout, threshold) ==
    LET key == "INACTIVITY_TIME"
        with == SelectSeq(servers, LAMBDA cid : StatsCount(st, key, cid) > 0)
        per(cid) ==
            LET all == StatsEvents(st, key, cid)
            IN Frac(100 * SumSeq([i \in DOMAIN all |->
                         weighted_user_satisfaction(
                             all[i].value, timeout[cid], threshold)]),
                    StatsCount(st, key, cid) * Abs(60 - threshold))
    IN IF with = <<>> THEN Frac(0, 1)
       ELSE mean([i \in DOMAIN with |-> per(with[i])])

\* Stats.append of an inactivity interval, or of an activity interval, of
\* one of the computers.
StatsAppendInterval ==
    /\ ad.pc = "stats"
    /\ Len(recorded) < MaxRecords
    /\ \E cid \in Range(ad.servers),
          e \in {<<"INACTIVITY_TIME", 90>>, <<"INACTIVITY_TIME", 130>>,
                 <<"ACTIVITY_TIME", 200>>} :
          Commit(StatsAppend(Stored, e[1], e[2], cid, now))
    /\ UNCHANGED <<ad, config, runs, timers, user, rpc, runner>>

\* The call of Stats.user_satisfaction at the end of Simulation.run.  Its
\* queries flush the write cache of the histogram.
StatsUserSatisfaction ==
    /\ ad.pc = "stats"
    /\ ad' = [ad EXCEPT
           !.pc = "reported",
           !.query = "user_satisfaction",
           !.result = user_satisfaction(Stored, ad.servers, ad.timeout,
                                        ad.cfg.satisfaction_threshold)]
    /\ Commit(IF HasKey(storage, "INACTIVITY_TIME")
              THEN flush(Stored, KeyIndex(storage, "INACTIVITY_TIME"))
              ELSE Stored)
    /\ UNCHANGED <<config, runs, timers, user, rpc, runner>>

InitStats ==
    /\ \E cfg \in Settings,
          timeout \in {[cid \in {"pc1", "pc2", "pc3"} |-> 100],
                       [cid \in {"pc1", "pc2", "pc3"} |->
                           CASE cid = "pc1" -> 100
                             [] cid = "pc2" -> 60
                             [] OTHER -> 20]},
          global \in {[tuple |-> TRUE, mean |-> 100],
                      [tuple |-> FALSE, mean |-> 0]} :
          ad = [pc |-> "stats", cfg |-> cfg,
                servers |-> <<"pc1", "pc2", "pc3">>, timeout |-> timeout,
                global |-> global, query |-> "none", failure |-> "none",
                result |-> None]
    /\ \E c \in Configurations({Tick}, {1}) :
          /\ ~c.disable_auto_shutdown
          /\ config = [c EXCEPT !.cids = <<"pc1", "pc2", "pc3">>]
    /\ runs = 1
    /\ now = Tick
    /\ queue = <<>>
    /\ computer = <<>>
    /\ timers = <<>>
    /\ user = <<>>
    /\ storage = <<>>
    /\ db = <<>>
    /\ rpc = "running"
    /\ runner = NoRunner
    /\ failure = "none"
    /\ trans = <<>>
    /\ recorded = <<>>

\* Stats.removed_inactivity.  _idle_timeout() is global_idle_timeout() of
\* the training distribution: the tuple (mean, median, std) of an
\* ActivityDistribution, math.inf of a FleetGenerator.  A numpy value
\* compared with a tuple is an array of three booleans, and the condition
\* of the generator raises ValueError on it.  The sum of the differences is
\* evaluated before the division; ZeroDivisionError is the only exception
\* caught; int(None) of Histogram.sum_histogram raises TypeError.
removed_inactivity(st, global) ==
    LET all == StatsEvents(st, "INACTIVITY_TIME", NoCid)
        total == StatsSum(st, "INACTIVITY_TIME", NoCid)
    IN IF all # <<>> /\ global.tuple
       THEN [failure |-> "ValueError", result |-> None]
       ELSE IF total = None
       THEN [failure |-> "TypeError", result |-> None]
       ELSE IF total = 0
       THEN [failure |-> "none", result |-> Frac(0, 1)]
       ELSE [failure |-> "none", result |-> Frac(0, total)]

\* The call of Stats.removed_inactivity at the end of Simulation.run.
StatsRemovedInactivity ==
    /\ ad.pc = "stats"
    /\ LET r == removed_inactivity(Stored, ad.global)
       IN ad' = [ad EXCEPT
              !.pc = IF r.failure = "none" THEN "reported" ELSE "raised",
              !.query = "removed_inactivity",
              !.failure = r.failure,
              !.result = r.result]
    /\ Commit(IF HasKey(storage, "INACTIVITY_TIME")
              THEN flush(Stored, KeyIndex(storage, "INACTIVITY_TIME"))
              ELSE Stored)
    /\ UNCHANGED <<config, runs, timers, user, rpc, runner>>

NextStats ==
    \/ StatsAppendInterval
    \/ StatsUserSatisfaction
    \/ StatsRemovedInactivity

SpecStats == InitStats /\ [][NextStats]_vars

\* C30: user_satisfaction() is 100 times the mean, over the computers with
\* at least one inactivity interval recorded in the current run, of the mean
\* weight of that computer's intervals; computers without one are left out;
\* it is 0 when there is none; it is always within [0, 100].  (The intervals
\* are taken from the history of the appends, the weights are scaled by
\* |60 - threshold|.)
C30_UserSatisfaction ==
    ad.pc = "reported" /\ ad.query = "user_satisfaction" =>
        LET mine(cid) == SelectSeq(recorded, LAMBDA r :
                             /\ r.histogram = "INACTIVITY_TIME"
                             /\ r.run = runs
                             /\ r.computer = cid)
            with == SelectSeq(ad.servers, LAMBDA cid : mine(cid) # <<>>)
            weights(cid) ==
                SumSeq([i \in DOMAIN mine(cid) |->
                           weighted_user_satisfaction(
                               mine(cid)[i].value, ad.timeout[cid],
                               ad.cfg.satisfaction_threshold)])
            d == Abs(60 - ad.cfg.satisfaction_threshold)
            total == SumSeq([i \in DOMAIN with |->
                        LET others == SelectSeq(with,
                                          LAMBDA c : c # with[i])
                        IN weights(with[i])
                           * (IF others = <<>> THEN 1
                              ELSE IF Len(others) = 1
                              THEN Len(mine(others[1]))
                              ELSE Len(mine(others[1]))
                                   * Len(mine(others[2])))])
            counts == IF with = <<>> THEN 1
                      ELSE IF Len(with) = 1 THEN Len(mine(with[1]))
                      ELSE IF Len(with) = 2
                      THEN Len(mine(with[1])) * Len(mine(with[2]))
                      ELSE Len(mine(with[1])) * Len(mine(with[2]))
                           * Len(mine(with[3]))
        IN /\ with = <<>> => ad.result = Frac(0, 1)
           /\ with # <<>> =>
                 ad.result.n * (d * counts * Len(with))
                 = ad.result.d * (100 * total)
           /\ ad.result.n >= 0
           /\ ad.result.n <= 100 * ad.result.d

\* The result was asked with intervals of pc1 and pc2 recorded and none of
\* pc3, and it is strictly between 0 and 100.
C30_Witness ==
    /\ ad.pc = "reported"
    /\ ad.query = "user_satisfaction"
    /\ \E i, j \in DOMAIN recorded :
          /\ recorded[i].histogram = "INACTIVITY_TIME"
          /\ recorded[i].computer = "pc1"
          /\ recorded[j].histogram = "INACTIVITY_TIME"
          /\ recorded[j].computer = "pc2"
    /\ \A i \in DOMAIN recorded : recorded[i].computer # "pc3"
    /\ ad.result.n > 0
    /\ ad.result.n < 100 * ad.result.d

\* C31: removed_inactivity() returns 100 times the sum of (sample - global
\* timeout) over the inactivity intervals of the run above the global
\* timeout, divided by the sum of all the inactivity intervals of the run;
\* the value is within [0, 100], it is 0 when no interval is above the
\* timeout, and 0 is returned when no inactivity was recorded.
C31_RemovedInactivity ==
    ad.pc \in {"reported", "raised"} /\ ad.query = "removed_inactivity" =>
        LET mine == SelectSeq(recorded, LAMBDA r :
                        /\ r.histogram = "INACTIVITY_TIME"
                        /\ r.run = runs)
            above == SelectSeq(mine, LAMBDA r :
                         ad.global.tuple /\ r.value > ad.global.mean)
            removed == SumSeq([i \in DOMAIN above |->
                                  above[i].value - ad.global.mean])
            total == SumSeq([i \in DOMAIN mine |-> mine[i].value])
        IN /\ ad.pc = "reported"
           /\ total = 0 => ad.result = Frac(0, 1)
           /\ total # 0 => ad.result = Frac(100 * removed, total)
           /\ ad.result.n >= 0
           /\ ad.result.n <= 100 * ad.result.d

C33_FetchOnHourChange ==
    [][rpc = "running" /\ rpc' = "running" =>
          \A u \in DOMAIN user :
              user[u].pc \in {"init", "inactive"} /\ user'[u].pc # user[u].pc
                  => user'[u].current_hour = timestamp_to_day(now')]_vars

\* C33, amended: at a decision taken while the Computer is on the count is
\* fetched exactly when the (day, hour) of the current time differs from
\* that of the previous fetch; a decision taken while the Computer is off
\* fetches nothing and never shuts down; a shutdown takes exactly 1 off the
\* count (2 halves) and needs a count above 0, a decision without a shutdown
\* leaves it; nothing else touches the count; so the count stays above -1,
\* and the shutdowns of the fetched hour are at most the ceiling of the
\* fetched count.
C33_FetchWhenOn ==
    /\ [](rpc = "running" =>
            \A u \in DOMAIN user :
                LET n == Cardinality({i \in DOMAIN recorded :
                             /\ recorded[i].run = runs
                             /\ recorded[i].histogram = "USER_SHUTDOWN_TIME"
                             /\ recorded[i].computer = computer[u].cid
                             /\ timestamp_to_day(recorded[i].timestamp)
                                    = user[u].current_hour})
                    fetched == user[u].off_frequency + 2 * n
                IN /\ user[u].off_frequency > 0 - 2
                   /\ n <= (fetched + 1) \div 2)
    /\ [][rpc = "running" /\ rpc' = "running" =>
            \A u \in DOMAIN user :
                LET decides == /\ user[u].pc \in {"init", "inactive"}
                               /\ user'[u].pc # user[u].pc
                    hour == timestamp_to_day(now')
                    shuts == user'[u].pc = "shutdown"
                    before == user[u].off_frequency
                    after == user'[u].off_frequency
                IN /\ ~decides =>
                        /\ user'[u].current_hour = user[u].current_hour
                        /\ after = before
                   /\ decides /\ computer[u].status # "on" =>
                        /\ user'[u].current_hour = user[u].current_hour
                        /\ after = before
                        /\ ~shuts
                   /\ decides /\ computer[u].status = "on" =>
                        /\ user'[u].current_hour = hour
                        /\ user[u].current_hour = hour =>
                              /\ shuts => before > 0 /\ after = before - 2
                              /\ ~shuts => after = before
                        /\ user[u].current_hour # hour =>
                              /\ shuts => after + 2 \in OffFrequencies
                                          /\ after + 2 > 0
                              /\ ~shuts => after \in OffFrequencies]_vars

\* Within one hour a count of 1.5 was fetched, two shutdowns were performed
\* and a third decision of that hour, with the Computer on and the count at
\* -0.5, went on to serve().
C33_Witness ==
    \E u \in DOMAIN user :
        /\ rpc = "running"
        /\ user[u].pc = "serving"
        /\ user[u].off_frequency = 0 - 1
        /\ user[u].current_hour = timestamp_to_day(now)
        /\ Cardinality({i \in DOMAIN recorded :
               /\ recorded[i].histogram = "USER_SHUTDOWN_TIME"
               /\ timestamp_to_day(recorded[i].timestamp)
                      = user[u].current_hour}) = 2
        /\ computer[u].status = "on"
        /\ recorded[Len(recorded)].histogram = "INACTIVITY_TIME"

\* C34: a run that reached its horizon evaluates the cross-check without
\* raising and returns its metrics: the step that ends the run leaves no
\* exception and the run returned.
C34_ValidationNeverRaises ==
    [][rpc = "running" /\ rpc' # "running" =>
          rpc' = "returned" /\ failure' = "none"]_vars

\* C35: when a lookup has returned a model found by stepping back, the
\* requested slot itself holds that model, whether it had no model or an
\* incomplete one at the call.
C35_CachedInSlot ==
    /\ ad.pc = "returned"
    /\ ad.returned # NoModel
    /\ ad.call.previous_count > 0
    => ad.models[ad.call.cid][<<ad.call.day, ad.call.hour>>] = ad.returned

\* C36: a bounded draw from a sample that has at least one value returns:
\* no query is left drawing for ever, every draw being rejected.
C36_SamplingReturns == ad.pc # "drawing"

get_all_hourly_histograms(st, name) ==
    LET rows == Selected(st, name, NoCid)
    IN [i \in 0..167 |->
           LET g == SelectSeq(rows, LAMBDA r : t_hour(r.timestamp) = i)
           IN [j \in 1..Len(g) |-> g[j].value]]

\* Histogram.get_all_hourly_count: the rows of each hour of the week, per
\* simulated week, and per hour and per server unless the arguments say so.
get_all_hourly_count(st, name, per_hour, per_pc) ==
    LET rows == Selected(st, name, NoCid)
        count(i) == Len(SelectSeq(rows, LAMBDA r : t_hour(r.timestamp) = i))
    IN [i \in 0..167 |->
           Frac(count(i) * WEEK,
                config.simulation_time
                    * (IF per_hour THEN 1 ELSE 168)
                    * (IF per_pc THEN 1 ELSE Len(config.cids)))]

\* C38: every query of a Histogram (count, sum, all events, hourly
\* histograms, hourly counts) returns the entries appended so far in the
\* current run, whatever the write cache holds; the write cache and the table
\* together hold each appended entry exactly once, and a second flush adds
\* nothing; the write cache holds fewer than cache_size entries after every
\* append.
C38_QueriesSeeAppends ==
    /\ \A key \in Keys :
         \A cid \in {NoCid} \cup {config.cids[u] : u \in Users} :
            LET mine == SelectSeq(recorded,
                            LAMBDA r : /\ r.run = runs
                                       /\ r.histogram = key
                                       /\ cid = NoCid \/ r.computer = cid)
            IN /\ StatsCount(Stored, key, cid) = Len(mine)
               /\ SameEntries(StatsEvents(Stored, key, cid),
                              [i \in DOMAIN mine |->
                                  [timestamp |-> mine[i].timestamp,
                                   value |-> mine[i].value]])
               /\ mine # <<>> =>
                    StatsSum(Stored, key, cid)
                        = SumSeq([i \in DOMAIN mine |-> mine[i].value])
    /\ \A key \in Keys :
         HasKey(storage, key) =>
            \A h \in {0, 167} \cup {t_hour(recorded[i].timestamp) :
                                        i \in DOMAIN recorded} :
               LET inHour == SelectSeq(recorded,
                                 LAMBDA r : /\ r.run = runs
                                            /\ r.histogram = key
                                            /\ t_hour(r.timestamp) = h)
               IN /\ SameEntries(get_all_hourly_histograms(Stored, key)[h],
                                 [i \in DOMAIN inHour |-> inHour[i].value])
                  /\ get_all_hourly_count(Stored, key, TRUE, TRUE)[h]
                        = Frac(Len(inHour) * WEEK, config.simulation_time)
                  /\ get_all_hourly_count(Stored, key, FALSE, FALSE)[h]
                        = Frac(Len(inHour) * WEEK,
                               config.simulation_time * 168 * Len(config.cids))
    /\ SameEntries(StatsFlush(Stored).db, recorded)
    /\ StatsFlush(StatsFlush(Stored)).db = StatsFlush(Stored).db
    /\ \A i \in DOMAIN storage : Len(storage[i].cache) < config.cache_size

\* A histogram has flushed entries in the table and a later one in its write
\* cache, and its count is that of all three.
C38_Witness ==
    /\ config.cache_size = 2
    /\ \E i \in DOMAIN storage :
         /\ Len(storage[i].cache) = 1
         /\ \E j \in DOMAIN db : db[j].histogram = storage[i].name
         /\ StatsCount(Stored, storage[i].name, NoCid) = 3

\* C39: every entry recorded has a timestamp in [0, simulation_time) and a
\* value of at least 0; the ACTIVITY_TIME, INACTIVITY_TIME and
\* USER_SHUTDOWN_TIME entries of a Computer in a run have non-decreasing
\* timestamps, as recorded and as returned by the histogram; an entry is
\* recorded only by a step of a run in progress, at a time before the
\* horizon, and none once the run has reached it.
C39_EntriesWithinRun ==
    /\ [](/\ \A i \in DOMAIN recorded :
               /\ 0 <= recorded[i].timestamp
               /\ recorded[i].timestamp < config.simulation_time
               /\ recorded[i].value >= 0
          /\ \A i, j \in DOMAIN recorded :
               /\ i < j
               /\ recorded[i].run = recorded[j].run
               /\ recorded[i].computer = recorded[j].computer
               /\ {recorded[i].histogram, recorded[j].histogram}
                     \subseteq {"ACTIVITY_TIME", "INACTIVITY_TIME",
                                "USER_SHUTDOWN_TIME"}
               => recorded[i].timestamp <= recorded[j].timestamp
          /\ \A u \in DOMAIN computer :
               \A key \in {"ACTIVITY_TIME", "INACTIVITY_TIME",
                            "USER_SHUTDOWN_TIME"} :
                  \A i \in 1..(Len(Entries(key, u)) - 1) :
                     Entries(key, u)[i].timestamp
                        <= Entries(key, u)[i + 1].timestamp)
    /\ [][recorded' # recorded =>
             /\ rpc = "running" /\ rpc' = "running"
             /\ now' < config.simulation_time
             /\ Len(recorded') > Len(recorded)
             /\ SubSeq(recorded', 1, Len(recorded)) = recorded
             /\ \A i \in (Len(recorded) + 1)..Len(recorded') :
                   /\ recorded'[i].run = runs
                   /\ recorded'[i].timestamp <= now']_vars

\* The run has returned with a task still waiting beyond the horizon; its
\* last entry was recorded at the last instant before the horizon, one entry
\* has the value 0, and an auto-shutdown was recorded with the time it began.
C39_Witness ==
    /\ rpc = "returned"
    /\ queue # <<>>
    /\ \E i \in DOMAIN recorded :
         recorded[i].timestamp = config.simulation_time - Tick
    /\ \E i \in DOMAIN recorded : recorded[i].value = 0
    /\ \E i, j \in DOMAIN recorded :
         /\ i < j
         /\ recorded[i].histogram = "AUTO_SHUTDOWN_TIME"
         /\ recorded[i].timestamp < recorded[j].timestamp

====
